---- MODULE Spec2Model ----
(***************************************************************************)
(* WinMix statistics aggregator (services/advanced-statistics.ts), the     *)
(* usePrediction hook, the PredictionEngine orchestrator with its matches  *)
(* queries and registered models, the prediction modal's headline, the     *)
(* statistics PredictionModal (fixture selection and runPredictions) and   *)
(* the builder panel's calculatePrediction.                                *)
(*                                                                         *)
(* Numbers that the code holds as IEEE-754 doubles and prints with         *)
(* toFixed(k) are kept as integers scaled by 10^k (a percentage of 28.7 is *)
(* 287).  The doubles themselves never fit a TLC integer; what the model   *)
(* keeps of a double is its exact rational value written as                *)
(*     exact quotient + err / (divisor * 2^e)                              *)
(* where err is a small integer obtained by modular arithmetic.  That is   *)
(* all toFixed needs: it rounds the exact binary value of the double.      *)
(***************************************************************************)
EXTENDS Integers, Sequences, FiniteSets, TLC

VARIABLES
    matches,          \* statistics: the Match[] handed to the aggregator
    basic,            \* statistics: <<>> or <<MatchStats>> once computed
    detailed,         \* statistics: <<>> or <<DetailedMatchStats>> once computed
    isLoading,        \* usePrediction: useState(false)
    error,            \* usePrediction: useState<string | null>(null)
    prediction,       \* usePrediction: useState<PredictionOutput | null>(null)
    calls,            \* usePrediction: the predictMatch / predictBatch invocations
    ensembleWeights,  \* PredictionEngine.ensembleWeights (hundredths)
    table,            \* the rows of the `matches` table the engine queries
    featureBundle,    \* engine: <<>> or <<the bundle prepareFeatures returned>>
    modelOutputs,     \* engine: model name -> what that model's predict returned
    combined,         \* engine: <<>> or <<what combineModels returned>>
    displayed,        \* modal: the PredictionOutput shown
    highest,          \* modal: <<>> or <<what getHighestProbability returned>>
    quality,          \* engine: <<>> or <<the data-quality score>> (hundredths)
    metadata,         \* engine: <<>> or <<the prediction_metadata assembled>>
    teams,            \* statistics modal: useState<string[]>([])
    selectedMatches,  \* statistics modal: useState<PredictedMatch[]>([])
    predictionEntries,  \* statistics modal: the result entries last set
    loading,          \* statistics modal: useState(false)
    run,              \* statistics modal: the runPredictions invocation
    fixturePair,      \* builder panel: <<>> or <<the two names given>>
    predictionResult  \* builder panel: <<>> or <<what calculatePrediction returned>>

vars ==
    <<matches, basic, detailed, isLoading, error, prediction, calls, ensembleWeights,
      table, featureBundle, modelOutputs, combined, displayed, highest, quality, metadata,
      teams, selectedMatches, predictionEntries, loading, run, fixturePair, predictionResult>>

statsVars == <<matches, basic, detailed>>
hookVars == <<isLoading, error, prediction, calls, ensembleWeights>>
engineVars ==
    <<table, featureBundle, modelOutputs, combined, displayed, highest, quality, metadata>>
modalVars == <<teams, selectedMatches, predictionEntries, loading, run>>
builderVars == <<fixturePair, predictionResult>>
panelVars == <<modalVars, builderVars>>

(***************************************************************************)
(* Bounds of the model.                                                    *)
(***************************************************************************)
\* longest list of arbitrary matches handed to the aggregator
MaxLen == 5
\* largest number of matches in a list built from the bulk fixtures
MaxTotal == 20
\* largest number of inputs in one predictBatch call
MaxBatch == 2
\* longest matches table made of arbitrary rows
MaxRows == 3
\* largest number of home (and of away) matches of one team in a table
MaxHistory == 11
\* longest team list fetchTeams resolves with
MaxTeams == 3
\* largest number of fixtures with both teams set when runPredictions starts
MaxValid == 2
\* longest team name given to calculatePrediction
MaxNameLen == 10

(***************************************************************************)
(* Optional values: null / undefined is <<>>, a present value v is <<v>>.  *)
(***************************************************************************)
None == <<>>

Some(v) == <<v>>

\* JavaScript `x || 0` on a number | null: null, undefined and 0 all give 0
OrZero(x) == IF x = None THEN 0 ELSE x[1]

(***************************************************************************)
(* IEEE-754 double arithmetic, as far as toFixed can observe it.           *)
(***************************************************************************)
Pow2(k) == 2 ^ k

RECURSIVE PowMod2(_, _)
\* 2^e mod m, without ever forming 2^e
PowMod2(e, m) == IF e = 0 THEN 1 % m ELSE (2 * PowMod2(e - 1, m)) % m

\* the p with 2^p <= n/d < 2^(p+1), for n, d > 0
FloorLog2(n, d) ==
    CHOOSE p \in -12..12 :
        IF p >= 0
        THEN d * Pow2(p) <= n /\ n < d * Pow2(p + 1)
        ELSE d <= n * Pow2(-p) /\ n * Pow2(-p - 1) < d

\* fl(n/d) = M * 2^(-e) with 2^52 <= M < 2^53: the exponent e
DivExp(n, d) == 52 - FloorLog2(n, d)

\* fl(n/d) = M * 2^(-e): M*d - n*2^e, the rounding error of the 53-bit
\* significand M times d (round to nearest, ties to even)
DivDelta(n, d) ==
    IF n = 0 THEN 0
    ELSE LET e  == DivExp(n, d)
             r  == (n * PowMod2(e, d)) % d
             q0 == (((n * PowMod2(e, 2 * d)) % (2 * d)) - r) \div d
         IN  IF 2 * r < d THEN -r
             ELSE IF 2 * r > d THEN d - r
             ELSE IF q0 % 2 = 0 THEN -r ELSE d - r

\* Number((n / d).toFixed(digits)) scaled by 10^digits.  toFixed picks the
\* integer k with k/10^digits nearest to the double, the larger k on a tie.
\* The double is n/d + DivDelta/(d*2^e) and e >= 28, so it rounds like n/d
\* except when n/d sits exactly on a half step and the double lies below it.
ToFixedDiv(n, d, digits) ==
    LET S   == 10 ^ digits
        k   == (2 * S * n + d) \div (2 * d)
        rem == (2 * S * n + d) % (2 * d)
    IN  IF rem = 0 /\ DivDelta(n, d) < 0 THEN k - 1 ELSE k

\* fl(fl(c/t) * 100) = 100c/t + PctErr/(t * 2^e), for 0 < c <= t: the first
\* rounding leaves DivDelta, the product 100 * M has up to 60 bits and is
\* rounded again to 53 (dropping s = 6 or 7 bits, ties to even)
PctErr(c, t) ==
    IF c = 0 THEN 0
    ELSE LET e     == DivExp(c, t)
             delta == DivDelta(c, t)
             mod   == 256 * t
             My    == ((((c * PowMod2(e, mod)) % mod) + delta) % mod) \div t
             L     == 100 * c * Pow2(-FloorLog2(c, t))
             s     == IF L > 128 * t \/ (L = 128 * t /\ delta >= 0) THEN 7 ELSE 6
             Pm    == (100 * My) % Pow2(s + 1)
             low   == Pm % Pow2(s)
             bit   == Pm \div Pow2(s)
             d2    == IF 2 * low < Pow2(s) THEN -low
                      ELSE IF 2 * low > Pow2(s) THEN Pow2(s) - low
                      ELSE IF bit = 0 THEN -low ELSE Pow2(s) - low
         IN  100 * delta + t * d2

\* ToFixedPct with toFixed(0) in place of toFixed(1): whole percents
ToFixedPctWhole(c, t) == 10 * ((200 * c + t) \div (2 * t))

\* Number(((c / t) * 100).toFixed(1)) in tenths of a percent
ToFixedPct(c, t) ==
    LET k   == (2000 * c + t) \div (2 * t)
        rem == (2000 * c + t) % (2 * t)
    IN  IF rem = 0 /\ PctErr(c, t) < 0 THEN k - 1 ELSE k

(***************************************************************************)
(* Sequences.                                                              *)
(***************************************************************************)
RECURSIVE SeqSum(_)
\* Array.prototype.reduce((sum, x) => sum + x, 0)
SeqSum(s) == IF s = <<>> THEN 0 ELSE s[1] + SeqSum(Tail(s))

\* Array.prototype.filter(P).length
Count(s, P(_)) == Cardinality({i \in 1..Len(s) : P(s[i])})

\* Array.prototype.slice(0, n)
Slice(s, n) == SubSeq(s, 1, IF Len(s) < n THEN Len(s) ELSE n)

(***************************************************************************)
(* services/advanced-statistics.ts                                         *)
(***************************************************************************)
\* frequentResults keeps this many scorelines (.slice(0, 4))
TopN == 4

\* `${full_time_home_goals}-${full_time_away_goals}`: two decimal numerals
\* joined by "-".  Two matches give the same string exactly when they have
\* the same pair of goal counts, and no such string is an array index, so
\* the object keeps these keys in insertion order; the key is kept as the pair.
ResultKey(m) == <<m.full_time_home_goals, m.full_time_away_goals>>

\* calculateBasicStats without the early return for an empty list: 0 / 0 is
\* NaN, and so is every field derived from it (NaN is written -1)
calculateBasicStatsUnguarded(ms) ==
    LET totalMatches == Len(ms)
        homeWins     == Count(ms, LAMBDA m : m.result_computed = "H")
        draws        == Count(ms, LAMBDA m : m.result_computed = "D")
        awayWins     == Count(ms, LAMBDA m : m.result_computed = "A")
        totalGoals   == SeqSum([i \in 1..Len(ms) |->
                            ms[i].full_time_home_goals + ms[i].full_time_away_goals])
        Pct(c)       == IF totalMatches = 0 THEN -1 ELSE ToFixedPct(c, totalMatches)
    IN  [total_matches |-> totalMatches,
         home_wins |-> homeWins,
         draws |-> draws,
         away_wins |-> awayWins,
         btts_count |-> Count(ms, LAMBDA m : m.btts_computed = TRUE),
         comeback_count |-> Count(ms, LAMBDA m : m.comeback_computed = TRUE),
         avg_goals |-> IF totalMatches = 0 THEN -1 ELSE ToFixedDiv(totalGoals, totalMatches, 1),
         home_win_percentage |-> Pct(homeWins),
         draw_percentage |-> Pct(draws),
         away_win_percentage |-> Pct(awayWins),
         btts_percentage |-> Pct(Count(ms, LAMBDA m : m.btts_computed = TRUE)),
         comeback_percentage |-> Pct(Count(ms, LAMBDA m : m.comeback_computed = TRUE))]

calculateBasicStats(ms) ==
    IF Len(ms) = 0
    THEN [total_matches |-> 0, home_wins |-> 0, draws |-> 0, away_wins |-> 0,
          btts_count |-> 0, comeback_count |-> 0, avg_goals |-> 0,
          home_win_percentage |-> 0, draw_percentage |-> 0,
          away_win_percentage |-> 0, btts_percentage |-> 0,
          comeback_percentage |-> 0]
    ELSE LET totalMatches  == Len(ms)
             homeWins      == Count(ms, LAMBDA m : m.result_computed = "H")
             draws         == Count(ms, LAMBDA m : m.result_computed = "D")
             awayWins      == Count(ms, LAMBDA m : m.result_computed = "A")
             bttsCount     == Count(ms, LAMBDA m : m.btts_computed = TRUE)
             comebackCount == Count(ms, LAMBDA m : m.comeback_computed = TRUE)
             totalGoals    == SeqSum([i \in 1..Len(ms) |->
                                 ms[i].full_time_home_goals + ms[i].full_time_away_goals])
         IN  [total_matches |-> totalMatches,
              home_wins |-> homeWins,
              draws |-> draws,
              away_wins |-> awayWins,
              btts_count |-> bttsCount,
              comeback_count |-> comebackCount,
              avg_goals |-> ToFixedDiv(totalGoals, totalMatches, 1),
              home_win_percentage |-> ToFixedPct(homeWins, totalMatches),
              draw_percentage |-> ToFixedPct(draws, totalMatches),
              away_win_percentage |-> ToFixedPct(awayWins, totalMatches),
              btts_percentage |-> ToFixedPct(bttsCount, totalMatches),
              comeback_percentage |-> ToFixedPct(comebackCount, totalMatches)]

\* resultFrequency after the forEach: Object.entries gives one [key, count]
\* per distinct scoreline, in the order the scorelines were first inserted
ResultFrequencyEntries(ms) ==
    LET first == SelectSeq([i \in 1..Len(ms) |-> i],
                     LAMBDA i : \A j \in 1..(i - 1) : ResultKey(ms[j]) # ResultKey(ms[i]))
    IN  [k \in 1..Len(first) |->
            [result |-> ResultKey(ms[first[k]]),
             count  |-> Count(ms, LAMBDA m : ResultKey(m) = ResultKey(ms[first[k]]))]]

\* InsertByCount for the comparator (a, b) => a.count - b.count
InsertByCountAscending(sorted, x) ==
    LET k == Cardinality({i \in 1..Len(sorted) : sorted[i].count <= x.count})
    IN  SubSeq(sorted, 1, k) \o <<x>> \o SubSeq(sorted, k + 1, Len(sorted))

\* InsertByCount of a sort that is not stable: x goes in front of its ties
InsertByCountBeforeTies(sorted, x) ==
    LET k == Cardinality({i \in 1..Len(sorted) : sorted[i].count > x.count})
    IN  SubSeq(sorted, 1, k) \o <<x>> \o SubSeq(sorted, k + 1, Len(sorted))

\* one step of a stable sort by (a, b) => b.count - a.count: x goes behind
\* every element whose count is at least its own
InsertByCount(sorted, x) ==
    LET k == Cardinality({i \in 1..Len(sorted) : sorted[i].count >= x.count})
    IN  SubSeq(sorted, 1, k) \o <<x>> \o SubSeq(sorted, k + 1, Len(sorted))

RECURSIVE SortByCount(_)
\* Array.prototype.sort((a, b) => b.count - a.count), stable (ECMAScript 2019)
SortByCount(s) ==
    IF s = <<>> THEN <<>>
    ELSE InsertByCount(SortByCount(SubSeq(s, 1, Len(s) - 1)), s[Len(s)])

FrequentResults(ms) ==
    LET entries == ResultFrequencyEntries(ms)
        mapped  == [k \in 1..Len(entries) |->
                      [result     |-> entries[k].result,
                       count      |-> entries[k].count,
                       percentage |-> ToFixedPct(entries[k].count, Len(ms))]]
    IN  Slice(SortByCount(mapped), TopN)

\* HtHome with the full-time goals as the fallback of a missing count
HtHomeFromFullTime(m) ==
    IF m.half_time_home_goals = None THEN m.full_time_home_goals ELSE m.half_time_home_goals[1]

\* the half-time goals the forEach compares: `half_time_*_goals || 0`
HtHome(m) == OrZero(m.half_time_home_goals)

HtAway(m) == OrZero(m.half_time_away_goals)

\* the counters declared before the half-time forEach
HalfTimeZero ==
    [htHomeLeads |-> 0, htAwayLeads |-> 0, htDraws |-> 0,
     htHomeLeadToWin |-> 0, htHomeLeadToDraw |-> 0, htHomeLeadToLoss |-> 0,
     htAwayLeadToWin |-> 0, htAwayLeadToDraw |-> 0, htAwayLeadToLoss |-> 0]

\* the forEach with the last `else` of each branch restricted to the other
\* side's win: a lead in a row whose result is none of H, D, A is counted
\* as a lead and in no outcome counter, and an away lead that ends level
\* is left out of htAwayLeadToDraw
HalfTimeStepDrawDropped(c, match) ==
    LET htHomeGoals == HtHome(match)
        htAwayGoals == HtAway(match)
        ftResult    == match.result_computed
    IN  IF htHomeGoals > htAwayGoals
        THEN IF ftResult = "H"
             THEN [c EXCEPT !.htHomeLeads = @ + 1, !.htHomeLeadToWin = @ + 1]
             ELSE IF ftResult = "D"
             THEN [c EXCEPT !.htHomeLeads = @ + 1, !.htHomeLeadToDraw = @ + 1]
             ELSE [c EXCEPT !.htHomeLeads = @ + 1, !.htHomeLeadToLoss = @ + 1]
        ELSE IF htAwayGoals > htHomeGoals
        THEN IF ftResult = "A"
             THEN [c EXCEPT !.htAwayLeads = @ + 1, !.htAwayLeadToWin = @ + 1]
             ELSE IF ftResult = "H"
             THEN [c EXCEPT !.htAwayLeads = @ + 1, !.htAwayLeadToLoss = @ + 1]
             ELSE [c EXCEPT !.htAwayLeads = @ + 1]
        ELSE [c EXCEPT !.htDraws = @ + 1]

\* one iteration of the half-time forEach on counters c
HalfTimeStep(c, match) ==
    LET htHomeGoals == HtHome(match)
        htAwayGoals == HtAway(match)
        ftResult    == match.result_computed
    IN  IF htHomeGoals > htAwayGoals
        THEN IF ftResult = "H"
             THEN [c EXCEPT !.htHomeLeads = @ + 1, !.htHomeLeadToWin = @ + 1]
             ELSE IF ftResult = "D"
             THEN [c EXCEPT !.htHomeLeads = @ + 1, !.htHomeLeadToDraw = @ + 1]
             ELSE [c EXCEPT !.htHomeLeads = @ + 1, !.htHomeLeadToLoss = @ + 1]
        ELSE IF htAwayGoals > htHomeGoals
        THEN IF ftResult = "A"
             THEN [c EXCEPT !.htAwayLeads = @ + 1, !.htAwayLeadToWin = @ + 1]
             ELSE IF ftResult = "D"
             THEN [c EXCEPT !.htAwayLeads = @ + 1, !.htAwayLeadToDraw = @ + 1]
             ELSE [c EXCEPT !.htAwayLeads = @ + 1, !.htAwayLeadToLoss = @ + 1]
        ELSE [c EXCEPT !.htDraws = @ + 1]

RECURSIVE HalfTimeLoop(_, _)
\* matches.forEach(match => ...) over the counters
HalfTimeLoop(ms, c) ==
    IF ms = <<>> THEN c ELSE HalfTimeLoop(Tail(ms), HalfTimeStep(c, ms[1]))

\* HalfTimeAnalysis without the `> 0` guards and with a lead that ends in a
\* draw counted as held (a division by zero gives NaN, written -1)
HalfTimeAnalysisDrawsHeld(ms) ==
    LET c == HalfTimeLoop(ms, HalfTimeZero)
    IN  [ht_home_leads |-> c.htHomeLeads,
         ht_away_leads |-> c.htAwayLeads,
         ht_draws |-> c.htDraws,
         ht_home_lead_to_win |-> c.htHomeLeadToWin,
         ht_home_lead_to_draw |-> c.htHomeLeadToDraw,
         ht_home_lead_to_loss |-> c.htHomeLeadToLoss,
         ht_away_lead_to_win |-> c.htAwayLeadToWin,
         ht_away_lead_to_draw |-> c.htAwayLeadToDraw,
         ht_away_lead_to_loss |-> c.htAwayLeadToLoss,
         home_lead_hold_percentage |->
             IF c.htHomeLeads > 0
             THEN ToFixedPct(c.htHomeLeadToWin + c.htHomeLeadToDraw, c.htHomeLeads) ELSE -1,
         away_lead_hold_percentage |->
             IF c.htAwayLeads > 0
             THEN ToFixedPct(c.htAwayLeadToWin + c.htAwayLeadToDraw, c.htAwayLeads) ELSE -1]

HalfTimeAnalysis(ms) ==
    LET c == HalfTimeLoop(ms, HalfTimeZero)
    IN  [ht_home_leads |-> c.htHomeLeads,
         ht_away_leads |-> c.htAwayLeads,
         ht_draws |-> c.htDraws,
         ht_home_lead_to_win |-> c.htHomeLeadToWin,
         ht_home_lead_to_draw |-> c.htHomeLeadToDraw,
         ht_home_lead_to_loss |-> c.htHomeLeadToLoss,
         ht_away_lead_to_win |-> c.htAwayLeadToWin,
         ht_away_lead_to_draw |-> c.htAwayLeadToDraw,
         ht_away_lead_to_loss |-> c.htAwayLeadToLoss,
         home_lead_hold_percentage |->
             IF c.htHomeLeads > 0 THEN ToFixedPct(c.htHomeLeadToWin, c.htHomeLeads) ELSE 0,
         away_lead_hold_percentage |->
             IF c.htAwayLeads > 0 THEN ToFixedPct(c.htAwayLeadToWin, c.htAwayLeads) ELSE 0]

calculateDetailedStats(ms) ==
    IF Len(ms) = 0
    THEN [basic |-> calculateBasicStats(ms),
          goalStats |-> [home_goals_total |-> 0, away_goals_total |-> 0,
                         home_goals_per_match |-> 0, away_goals_per_match |-> 0,
                         home_clean_sheets |-> 0, away_clean_sheets |-> 0,
                         home_clean_sheet_percentage |-> 0,
                         away_clean_sheet_percentage |-> 0],
          overUnder |-> [over_25_count |-> 0, under_25_count |-> 0,
                         over_25_percentage |-> 0, under_25_percentage |-> 0,
                         over_35_count |-> 0, over_35_percentage |-> 0],
          frequentResults |-> <<>>,
          halfTimeAnalysis |-> [ht_home_leads |-> 0, ht_away_leads |-> 0, ht_draws |-> 0,
                                ht_home_lead_to_win |-> 0, ht_home_lead_to_draw |-> 0,
                                ht_home_lead_to_loss |-> 0, ht_away_lead_to_win |-> 0,
                                ht_away_lead_to_draw |-> 0, ht_away_lead_to_loss |-> 0,
                                home_lead_hold_percentage |-> 0,
                                away_lead_hold_percentage |-> 0]]
    ELSE LET totalMatches    == Len(ms)
             homeGoalsTotal  == SeqSum([i \in 1..Len(ms) |-> ms[i].full_time_home_goals])
             awayGoalsTotal  == SeqSum([i \in 1..Len(ms) |-> ms[i].full_time_away_goals])
             homeCleanSheets == Count(ms, LAMBDA m : m.full_time_away_goals = 0)
             awayCleanSheets == Count(ms, LAMBDA m : m.full_time_home_goals = 0)
             over25Count     == Count(ms, LAMBDA m :
                                   10 * (m.full_time_home_goals + m.full_time_away_goals) > 25)
             over35Count     == Count(ms, LAMBDA m :
                                   10 * (m.full_time_home_goals + m.full_time_away_goals) > 35)
         IN  [basic |-> calculateBasicStats(ms),
              goalStats |->
                  [home_goals_total |-> homeGoalsTotal,
                   away_goals_total |-> awayGoalsTotal,
                   home_goals_per_match |-> ToFixedDiv(homeGoalsTotal, totalMatches, 2),
                   away_goals_per_match |-> ToFixedDiv(awayGoalsTotal, totalMatches, 2),
                   home_clean_sheets |-> homeCleanSheets,
                   away_clean_sheets |-> awayCleanSheets,
                   home_clean_sheet_percentage |-> ToFixedPct(homeCleanSheets, totalMatches),
                   away_clean_sheet_percentage |-> ToFixedPct(awayCleanSheets, totalMatches)],
              overUnder |->
                  [over_25_count |-> over25Count,
                   under_25_count |-> totalMatches - over25Count,
                   over_25_percentage |-> ToFixedPct(over25Count, totalMatches),
                   under_25_percentage |-> ToFixedPct(totalMatches - over25Count, totalMatches),
                   over_35_count |-> over35Count,
                   over_35_percentage |-> ToFixedPct(over35Count, totalMatches)],
              frequentResults |-> FrequentResults(ms),
              halfTimeAnalysis |-> HalfTimeAnalysis(ms)]

(***************************************************************************)
(* Match rows handed to the aggregator.  Each row is written out with the  *)
(* columns the aggregator reads; result_computed, btts_computed and        *)
(* comeback_computed are the database's computed columns and agree with    *)
(* the goal counts.                                                        *)
(***************************************************************************)
Row(fh, fa, hh, ha, res, btts, cb) ==
    [full_time_home_goals |-> fh, full_time_away_goals |-> fa,
     half_time_home_goals |-> hh, half_time_away_goals |-> ha,
     result_computed |-> res, btts_computed |-> btts, comeback_computed |-> cb]

\* six rows with six scorelines: a half-time lead of either side that is
\* held, a home lead that is lost, an away lead that ends level, a goalless
\* match and a row without recorded half-time goals
MatchKinds ==
    { Row(1, 0, Some(1), Some(0), "H", FALSE, FALSE),
      Row(1, 2, Some(1), Some(0), "A", TRUE,  TRUE),
      Row(0, 1, Some(0), Some(1), "A", FALSE, FALSE),
      Row(2, 2, Some(0), Some(1), "D", TRUE,  TRUE),
      Row(0, 0, Some(0), Some(0), "D", FALSE, FALSE),
      Row(2, 0, None,    None,    "H", FALSE, FALSE) }

\* every list of at most MaxLen rows
ShortInputs == UNION {[1..n -> MatchKinds] : n \in 0..MaxLen}

\* the rows a season-long list is built from: 2-1, 2-0, 1-1, 1-2 and 0-0
BulkKinds ==
    << Row(2, 1, Some(0), Some(1), "H", TRUE,  TRUE),
       Row(2, 0, None,    None,    "H", FALSE, FALSE),
       Row(1, 1, Some(1), Some(0), "D", TRUE,  TRUE),
       Row(1, 2, Some(1), Some(0), "A", TRUE,  TRUE),
       Row(0, 0, Some(0), Some(0), "D", FALSE, FALSE) >>

\* n[k] copies of BulkKinds[k], kind after kind
Bulk(n) ==
    LET Rep(k) == [i \in 1..n[k] |-> BulkKinds[k]]
    IN  Rep(1) \o Rep(2) \o Rep(3) \o Rep(4) \o Rep(5)

\* every list of at most MaxTotal rows built from the bulk kinds
BulkInputs ==
    {Bulk(n) : n \in {c \in [1..5 -> 0..MaxTotal] :
                         c[1] + c[2] + c[3] + c[4] + c[5] <= MaxTotal}}

(***************************************************************************)
(* The aggregator as a state machine: a list of rows is given, and the two *)
(* exported functions are applied to it.                                   *)
(***************************************************************************)
StatsIdle == matches = <<>> /\ basic = <<>> /\ detailed = <<>>

CalculateBasicStats ==
    /\ basic = <<>> /\ detailed = <<>>
    /\ basic' = <<calculateBasicStats(matches)>>
    /\ UNCHANGED <<matches, detailed>>
    /\ UNCHANGED hookVars
    /\ UNCHANGED <<engineVars, panelVars>>

CalculateDetailedStats ==
    /\ basic = <<>> /\ detailed = <<>>
    /\ detailed' = <<calculateDetailedStats(matches)>>
    /\ UNCHANGED <<matches, basic>>
    /\ UNCHANGED hookVars
    /\ UNCHANGED <<engineVars, panelVars>>

(***************************************************************************)
(* PredictionEngine (prediction-engine service).  Probabilities, weights   *)
(* and scores are in hundredths: 0.35 is 35.                               *)
(***************************************************************************)
Teams == {"A", "B"}

\* a row of the matches table as the engine reads it
TeamRow(home, away, fh, fa, res, btts, cb) ==
    [home_team |-> home, away_team |-> away,
     full_time_home_goals |-> fh, full_time_away_goals |-> fa,
     half_time_home_goals |-> None, half_time_away_goals |-> None,
     result_computed |-> res, btts_computed |-> btts, comeback_computed |-> cb]

\* what awaiting one supabase query can give: the promise resolves with
\* { data, error } (data is null when the query failed), or it rejects
Resolved(rows) == [settled |-> "resolved", data |-> Some(rows), error |-> FALSE]

ErrorResult == [settled |-> "resolved", data |-> None, error |-> TRUE]

Rejected == [settled |-> "rejected", data |-> None, error |-> TRUE]

\* a row of the table: result_computed and btts_computed are columns the
\* database computes from the full-time score
Played(home, away, fh, fa, cb, time) ==
    [home_team |-> home, away_team |-> away, match_time |-> time,
     full_time_home_goals |-> fh, full_time_away_goals |-> fa,
     half_time_home_goals |-> None, half_time_away_goals |-> None,
     result_computed |-> IF fh > fa THEN "H" ELSE IF fh = fa THEN "D" ELSE "A",
     btts_computed |-> (fh > 0 /\ fa > 0),
     comeback_computed |-> cb]

\* .limit(10)
QueryLimit == 10

\* the order with { ascending: true }
InsertByMatchTimeAscending(sorted, x) ==
    LET k == Cardinality({i \in 1..Len(sorted) : sorted[i].match_time <= x.match_time})
    IN  SubSeq(sorted, 1, k) \o <<x>> \o SubSeq(sorted, k + 1, Len(sorted))

\* .order('match_time', { ascending: false }): x goes after the rows that
\* are as new or newer
InsertByMatchTime(sorted, x) ==
    LET k == Cardinality({i \in 1..Len(sorted) : sorted[i].match_time >= x.match_time})
    IN  SubSeq(sorted, 1, k) \o <<x>> \o SubSeq(sorted, k + 1, Len(sorted))

RECURSIVE OrderByMatchTime(_)
OrderByMatchTime(rows) ==
    IF rows = <<>> THEN <<>>
    ELSE InsertByMatchTime(OrderByMatchTime(SubSeq(rows, 1, Len(rows) - 1)), rows[Len(rows)])

\* .order('match_time', { ascending: false }).limit(10), resolved
Newest(rows) == Resolved(Slice(OrderByMatchTime(rows), QueryLimit))

\* .eq('home_team', teamName)
HomeMatchesOf(tbl, teamName) ==
    Newest(SelectSeq(tbl, LAMBDA m : m.home_team = teamName))

\* .eq('away_team', teamName)
AwayMatchesOf(tbl, teamName) ==
    Newest(SelectSeq(tbl, LAMBDA m : m.away_team = teamName))

\* .or(and(home_team.eq.H, away_team.eq.A), and(home_team.eq.A, away_team.eq.H))
HeadToHeadOf(tbl, homeTeam, awayTeam) ==
    Newest(SelectSeq(tbl, LAMBDA m :
        \/ (m.home_team = homeTeam /\ m.away_team = awayTeam)
        \/ (m.home_team = awayTeam /\ m.away_team = homeTeam)))

\* the five queries of one predict call
QueryNames == {"home_home", "home_away", "away_home", "away_away", "h2h"}

Opponent(t) == CHOOSE o \in Teams : o # t

\* what the five queries of predict(input) resolve with on table tbl
TableResponses(tbl, input) ==
    [q \in QueryNames |->
        CASE q = "home_home" -> HomeMatchesOf(tbl, input.home_team)
          [] q = "home_away" -> AwayMatchesOf(tbl, input.home_team)
          [] q = "away_home" -> HomeMatchesOf(tbl, input.away_team)
          [] q = "away_away" -> AwayMatchesOf(tbl, input.away_team)
          [] q = "h2h"       -> HeadToHeadOf(tbl, input.home_team, input.away_team)]

\* the ways one query can settle
Settlements == {"rejects", "error", "empty", "rows"}

\* what query q issued for `input` gives when it settles as `how`: a failure
\* of either kind, no rows, or one row that satisfies the query's filter
\* (no row of the table has an empty team name)
QueryOutcome(q, input, how) ==
    LET h == input.home_team
        a == input.away_team
        row == CASE q = "home_home" -> TeamRow(h, Opponent(h), 1, 0, "H", FALSE, FALSE)
                 [] q = "home_away" -> TeamRow(Opponent(h), h, 1, 1, "D", TRUE, FALSE)
                 [] q = "away_home" -> TeamRow(a, Opponent(a), 0, 1, "A", FALSE, FALSE)
                 [] q = "away_away" -> TeamRow(Opponent(a), a, 1, 2, "A", TRUE, FALSE)
                 [] q = "h2h"       -> TeamRow(a, h, 0, 2, "A", FALSE, FALSE)
    IN  CASE how = "rejects" -> Rejected
          [] how = "error"   -> ErrorResult
          [] how = "empty"   -> Resolved(<<>>)
          [] how = "rows"    -> IF row.home_team = "" \/ row.away_team = ""
                                THEN Resolved(<<>>)
                                ELSE Resolved(<<row>>)

\* `resp.data || []`
DataOrEmpty(resp) == IF resp.data = None THEN <<>> ELSE resp.data[1]

\* a quotient the code leaves as an unrounded double: numerator, denominator
Ratio(n, d) == <<n, d>>

\* the length itself, without Math.max
AtLeastOneUnguarded(n) == n

\* Math.max(n, 1)
AtLeastOne(n) == IF n > 1 THEN n ELSE 1

\* .map(m => result === win ? 1 : result === 'D' ? 0.5 : 0), in halves
FormOf(rows, win) ==
    [i \in 1..Len(rows) |->
        IF rows[i].result_computed = win THEN 2
        ELSE IF rows[i].result_computed = "D" THEN 1 ELSE 0]

getTeamFeatures(teamName, homeMatches, awayMatches) ==
    LET homeData == DataOrEmpty(homeMatches)
        awayData == DataOrEmpty(awayMatches)
        both     == homeData \o awayData
        homeForm == FormOf(Slice(homeData, 5), "H")
        awayForm == FormOf(Slice(awayData, 5), "A")
        homeGoalsScored   == SeqSum([i \in 1..Len(homeData) |-> homeData[i].full_time_home_goals])
        homeGoalsConceded == SeqSum([i \in 1..Len(homeData) |-> homeData[i].full_time_away_goals])
        awayGoalsScored   == SeqSum([i \in 1..Len(awayData) |-> awayData[i].full_time_away_goals])
        awayGoalsConceded == SeqSum([i \in 1..Len(awayData) |-> awayData[i].full_time_home_goals])
    IN  [team_id |-> teamName,
         team_name |-> teamName,
         form_features |->
             [recent_form_home |-> homeForm,
              recent_form_away |-> awayForm,
              recent_form_overall |-> Slice(homeForm \o awayForm, 5),
              current_streak |-> 0,
              streak_type |-> "MIXED",
              momentum_score |-> 0],
         goal_features |->
             [avg_goals_scored_home |->
                  IF Len(homeData) > 0 THEN Ratio(homeGoalsScored, Len(homeData)) ELSE Ratio(0, 1),
              avg_goals_scored_away |->
                  IF Len(awayData) > 0 THEN Ratio(awayGoalsScored, Len(awayData)) ELSE Ratio(0, 1),
              avg_goals_conceded_home |->
                  IF Len(homeData) > 0 THEN Ratio(homeGoalsConceded, Len(homeData)) ELSE Ratio(0, 1),
              avg_goals_conceded_away |->
                  IF Len(awayData) > 0 THEN Ratio(awayGoalsConceded, Len(awayData)) ELSE Ratio(0, 1),
              btts_percentage_home |->
                  Ratio(100 * Count(homeData, LAMBDA m : m.btts_computed), AtLeastOne(Len(homeData))),
              btts_percentage_away |->
                  Ratio(100 * Count(awayData, LAMBDA m : m.btts_computed), AtLeastOne(Len(awayData))),
              clean_sheet_percentage_home |->
                  Ratio(100 * Count(homeData, LAMBDA m : m.full_time_away_goals = 0),
                        AtLeastOne(Len(homeData))),
              clean_sheet_percentage_away |->
                  Ratio(100 * Count(awayData, LAMBDA m : m.full_time_home_goals = 0),
                        AtLeastOne(Len(awayData))),
              comeback_ability |->
                  Ratio(100 * Count(both, LAMBDA m : m.comeback_computed), AtLeastOne(Len(both))),
              lead_holding |-> 50],
         historical_features |->
             [total_matches_played |-> Len(homeData) + Len(awayData),
              home_win_percentage |->
                  Ratio(100 * Count(homeData, LAMBDA m : m.result_computed = "H"),
                        AtLeastOne(Len(homeData))),
              away_win_percentage |->
                  Ratio(100 * Count(awayData, LAMBDA m : m.result_computed = "A"),
                        AtLeastOne(Len(awayData))),
              draw_percentage |->
                  Ratio(100 * Count(both, LAMBDA m : m.result_computed = "D"), AtLeastOne(Len(both))),
              head_to_head_record |-> <<>>]]

\* a slip in the default matrix: its first row adds up to 1.05
getDefaultTransitionMatrixSkewed ==
    [ht_h_to_ft_h |-> 65, ht_h_to_ft_d |-> 25, ht_h_to_ft_a |-> 15,
     ht_d_to_ft_h |-> 35, ht_d_to_ft_d |-> 30, ht_d_to_ft_a |-> 35,
     ht_a_to_ft_h |-> 10, ht_a_to_ft_d |-> 25, ht_a_to_ft_a |-> 65]

getDefaultTransitionMatrix ==
    [ht_h_to_ft_h |-> 65, ht_h_to_ft_d |-> 25, ht_h_to_ft_a |-> 10,
     ht_d_to_ft_h |-> 35, ht_d_to_ft_d |-> 30, ht_d_to_ft_a |-> 35,
     ht_a_to_ft_h |-> 10, ht_a_to_ft_d |-> 25, ht_a_to_ft_a |-> 65]

\* a placeholder in the source: the sample is not looked at
calculateTransitionMatrix(rows) == getDefaultTransitionMatrix

\* the guard without `h2hMatches.length === 0`: an empty sample is divided
\* by its length
getHeadToHeadFeaturesUnguarded(homeTeam, awayTeam, resp) ==
    IF resp.data = None
    THEN [matches_played |-> 0,
          home_advantage |-> Ratio(0, 1),
          avg_goals |-> Ratio(0, 1),
          btts_rate |-> Ratio(0, 1),
          transition_matrix |-> getDefaultTransitionMatrix]
    ELSE LET h2hMatches == resp.data[1]
             homeWins == Count(h2hMatches, LAMBDA m :
                             \/ (m.home_team = homeTeam /\ m.result_computed = "H")
                             \/ (m.away_team = homeTeam /\ m.result_computed = "A"))
         IN  [matches_played |-> Len(h2hMatches),
              home_advantage |-> Ratio(homeWins, Len(h2hMatches)),
              avg_goals |->
                  Ratio(SeqSum([i \in 1..Len(h2hMatches) |->
                            h2hMatches[i].full_time_home_goals + h2hMatches[i].full_time_away_goals]),
                        Len(h2hMatches)),
              btts_rate |-> Ratio(Count(h2hMatches, LAMBDA m : m.btts_computed), Len(h2hMatches)),
              transition_matrix |-> calculateTransitionMatrix(h2hMatches)]

\* homeWins counts only the matches the team won at home
getHeadToHeadFeaturesHomeVenueOnly(homeTeam, awayTeam, resp) ==
    IF resp.data = None \/ Len(resp.data[1]) = 0
    THEN [matches_played |-> 0,
          home_advantage |-> Ratio(0, 1),
          avg_goals |-> Ratio(0, 1),
          btts_rate |-> Ratio(0, 1),
          transition_matrix |-> getDefaultTransitionMatrix]
    ELSE LET h2hMatches == resp.data[1]
             homeWins == Count(h2hMatches, LAMBDA m :
                             m.home_team = homeTeam /\ m.result_computed = "H")
         IN  [matches_played |-> Len(h2hMatches),
              home_advantage |-> Ratio(homeWins, Len(h2hMatches)),
              avg_goals |->
                  Ratio(SeqSum([i \in 1..Len(h2hMatches) |->
                            h2hMatches[i].full_time_home_goals + h2hMatches[i].full_time_away_goals]),
                        Len(h2hMatches)),
              btts_rate |-> Ratio(Count(h2hMatches, LAMBDA m : m.btts_computed), Len(h2hMatches)),
              transition_matrix |-> calculateTransitionMatrix(h2hMatches)]

getHeadToHeadFeatures(homeTeam, awayTeam, resp) ==
    IF resp.data = None \/ Len(resp.data[1]) = 0
    THEN [matches_played |-> 0,
          home_advantage |-> Ratio(0, 1),
          avg_goals |-> Ratio(0, 1),
          btts_rate |-> Ratio(0, 1),
          transition_matrix |-> getDefaultTransitionMatrix]
    ELSE LET h2hMatches == resp.data[1]
             homeWins == Count(h2hMatches, LAMBDA m :
                             \/ (m.home_team = homeTeam /\ m.result_computed = "H")
                             \/ (m.away_team = homeTeam /\ m.result_computed = "A"))
         IN  [matches_played |-> Len(h2hMatches),
              home_advantage |-> Ratio(homeWins, Len(h2hMatches)),
              avg_goals |->
                  Ratio(SeqSum([i \in 1..Len(h2hMatches) |->
                            h2hMatches[i].full_time_home_goals + h2hMatches[i].full_time_away_goals]),
                        Len(h2hMatches)),
              btts_rate |-> Ratio(Count(h2hMatches, LAMBDA m : m.btts_computed), Len(h2hMatches)),
              transition_matrix |-> calculateTransitionMatrix(h2hMatches)]

\* the features bundle, once all five queries have resolved
prepareFeatures(input, resp) ==
    [home_team |-> getTeamFeatures(input.home_team, resp["home_home"], resp["home_away"]),
     away_team |-> getTeamFeatures(input.away_team, resp["away_home"], resp["away_away"]),
     head_to_head |-> getHeadToHeadFeatures(input.home_team, input.away_team, resp["h2h"]),
     halftime_state |->
         IF input.halftime_home_goals # None
         THEN Some([home_goals |-> input.halftime_home_goals[1],
                    away_goals |-> OrZero(input.halftime_away_goals),
                    goal_difference |->
                        input.halftime_home_goals[1] - OrZero(input.halftime_away_goals)])
         ELSE None]

\* placeholders in the source: constants, whatever the features are
assessDataQuality(features) == 85

runAllModels(features) == <<>>

\* a slip in the combiner's numbers: they add up to 1.05
combineModelsDrifted(predictions) ==
    [home_win_probability |-> 50,
     draw_probability |-> 30,
     away_win_probability |-> 25,
     most_likely_outcome |-> "H",
     confidence_score |-> 75]

combineModels(predictions) ==
    [home_win_probability |-> 50,
     draw_probability |-> 25,
     away_win_probability |-> 25,
     most_likely_outcome |-> "H",
     confidence_score |-> 75]

getConfidenceLevel(score) ==
    IF score >= 80 THEN "HIGH" ELSE IF score >= 60 THEN "MEDIUM" ELSE "LOW"

\* the comparison with <= in place of <
generateWarningsInclusive(features, qualityScore) ==
    IF qualityScore <= 70 THEN <<"Limitált történeti adat">> ELSE <<>>

generateWarnings(features, qualityScore) ==
    IF qualityScore < 70 THEN <<"Limitált történeti adat">> ELSE <<>>

\* the prediction_metadata predict assembles; prediction_timestamp (the
\* wall clock) is left out
PredictionMetadata(features, qualityScore, finalPrediction) ==
    [model_version |-> "v1.0",
     data_quality_score |-> qualityScore,
     prediction_confidence |-> getConfidenceLevel(finalPrediction.confidence_score),
     warning_flags |-> generateWarnings(features, qualityScore)]

\* how the promise returned by predict(input) settles when its queries
\* settle as resp: Promise.all rejects as soon as one query rejects, and the
\* catch block turns any failure into Error('Predikciós hiba történt').
\* prediction_timestamp (the wall clock) is left out of the output.
predict(input, resp) ==
    IF \E q \in QueryNames : resp[q].settled = "rejected"
    THEN [status |-> "rejected", value |-> <<>>, reason |-> "Predikciós hiba történt"]
    ELSE LET features         == prepareFeatures(input, resp)
             qualityScore     == assessDataQuality(features)
             modelPredictions == runAllModels(features)
             finalPrediction  == combineModels(modelPredictions)
         IN  [status |-> "fulfilled",
              value |-> <<[predictions |-> finalPrediction,
                           model_explanations |-> modelPredictions,
                           prediction_metadata |->
                               PredictionMetadata(features, qualityScore, finalPrediction)]>>,
              reason |-> ""]

(***************************************************************************)
(* The registered models.  Each predict is a placeholder in the source: it *)
(* returns the same numbers whatever the features are.                     *)
(***************************************************************************)
\* a slip in the empirical model's numbers: they add up to 1.03
EmpiricalModelSkewed(features) ==
    [home_win |-> 45, draw |-> 30, away_win |-> 28, confidence |-> 60, key_features |-> <<>>]

EmpiricalModel(features) ==
    [home_win |-> 45, draw |-> 27, away_win |-> 28, confidence |-> 60, key_features |-> <<>>]

XGBoostModel(features) ==
    [home_win |-> 52, draw |-> 25, away_win |-> 23, confidence |-> 80, key_features |-> <<>>]

PoissonModel(features) ==
    [home_win |-> 48, draw |-> 26, away_win |-> 26, confidence |-> 70, key_features |-> <<>>]

MarkovModel(features) ==
    [home_win |-> 46, draw |-> 28, away_win |-> 26, confidence |-> 65, key_features |-> <<>>]

\* this.models.get(name).predict(features)
ModelPredict(name, features) ==
    CASE name = "empirical" -> EmpiricalModel(features)
      [] name = "xgboost"   -> XGBoostModel(features)
      [] name = "poisson"   -> PoissonModel(features)
      [] name = "markov"    -> MarkovModel(features)

\* the order in which the models were registered (Map insertion order)
RegistryOrder == <<"empirical", "xgboost", "poisson", "markov">>

\* a ModelExplanation for one model's output
Explanation(name, weight, out) ==
    [model_name |-> name,
     weight |-> weight,
     prediction |-> [home_win |-> out.home_win, draw |-> out.draw, away_win |-> out.away_win],
     key_features |-> out.key_features]

(***************************************************************************)
(* PredictionModal (the list of upcoming predictions).                     *)
(***************************************************************************)
\* Math.max of three numbers
Max3(a, b, c) ==
    IF a >= b /\ a >= c THEN a ELSE IF b >= c THEN b ELSE c

\* the comparisons made with the draw first
getHighestProbabilityDrawFirst(p) ==
    LET home_win_probability == p.predictions.home_win_probability
        draw_probability     == p.predictions.draw_probability
        away_win_probability == p.predictions.away_win_probability
        max == Max3(home_win_probability, draw_probability, away_win_probability)
    IN  IF max = draw_probability
        THEN [type |-> "Döntetlen", value |-> max, color |-> "text-yellow-400"]
        ELSE IF max = home_win_probability
        THEN [type |-> "Hazai", value |-> max, color |-> "text-primary"]
        ELSE [type |-> "Vendég", value |-> max, color |-> "text-red-400"]

\* value is Math.round(max * 100): max itself, in hundredths
getHighestProbability(p) ==
    LET home_win_probability == p.predictions.home_win_probability
        draw_probability     == p.predictions.draw_probability
        away_win_probability == p.predictions.away_win_probability
        max == Max3(home_win_probability, draw_probability, away_win_probability)
    IN  IF max = home_win_probability
        THEN [type |-> "Hazai", value |-> max, color |-> "text-primary"]
        ELSE IF max = draw_probability
        THEN [type |-> "Döntetlen", value |-> max, color |-> "text-yellow-400"]
        ELSE [type |-> "Vendég", value |-> max, color |-> "text-red-400"]

(***************************************************************************)
(* usePrediction hook.  A call of predictMatch or predictBatch runs up to  *)
(* its await in one step; it resumes in the step in which the awaited      *)
(* promise settles (the continuations are microtasks of that same turn).   *)
(***************************************************************************)
\* the invocations that may be in flight together
Callers == {"c1", "c2"}

Input(home, away, hh, ha) ==
    [home_team |-> home, away_team |-> away,
     halftime_home_goals |-> hh, halftime_away_goals |-> ha]

\* the PredictionInput values passed in; the last one has no home team
Inputs ==
    { Input("A", "B", None, None), Input("B", "A", Some(1), Some(0)),
      Input("", "B", None, None) }

\* the input arrays passed to predictBatch
BatchInputs == UNION {[1..n -> Inputs] : n \in 0..MaxBatch}

\* the queries predict(input) has issued by the time it settles: predict
\* goes straight to prepareFeatures, whose Promise.all starts getTeamFeatures
\* twice and getHeadToHeadFeatures, whatever the input holds
QueriesIssued(input) == QueryNames

\* the promise of one predictionEngine.predict call.  upstream_failed
\* records what its queries met: some query failed (rejected or resolved
\* with an error); queries records the queries the call issued
PendingTask ==
    [status |-> "pending", value |-> <<>>, reason |-> "",
     upstream_failed |-> FALSE, queries |-> {}]

SettledTask(input, resp) ==
    LET p == predict(input, resp)
    IN  [status |-> p.status, value |-> p.value, reason |-> p.reason,
         upstream_failed |-> \E q \in QueryNames : resp[q].error,
         queries |-> QueriesIssued(input)]

IdleCall ==
    [kind |-> "none", pc |-> "idle", inputs |-> <<>>, tasks |-> <<>>,
     ret |-> <<>>, toast |-> ""]

\* how the five queries of one predict call settle together: all the same
\* way, or all with rows but one
Scenarios ==
    {how \in [QueryNames -> Settlements] :
        \/ \A q, r \in QueryNames : how[q] = how[r]
        \/ Cardinality({q \in QueryNames : how[q] # "rows"}) = 1}

Responses(input) ==
    {[q \in QueryNames |-> QueryOutcome(q, input, how[q])] : how \in Scenarios}

\* the inputs predict is called with: those passed in, and those
\* updatePredictionWithHalftime builds from them
PredictInputs ==
    Inputs \cup {[input EXCEPT !.halftime_home_goals = Some(1),
                               !.halftime_away_goals = Some(0)] : input \in Inputs}

\* the ways the promise of predict(input) can settle, per input
PredictOutcomes ==
    [input \in PredictInputs |->
        {SettledTask(input, resp) : resp \in Responses(input)}]

\* Promise.all(tasks): rejected once one task is rejected, fulfilled with
\* the values in the order of the array once every task is fulfilled
PromiseAll(tasks) ==
    IF \E i \in 1..Len(tasks) : tasks[i].status = "rejected"
    THEN LET i == CHOOSE j \in 1..Len(tasks) : tasks[j].status = "rejected"
         IN  [status |-> "rejected", value |-> <<>>, reason |-> tasks[i].reason]
    ELSE IF \A i \in 1..Len(tasks) : tasks[i].status = "fulfilled"
    THEN [status |-> "fulfilled",
          value |-> [i \in 1..Len(tasks) |-> tasks[i].value[1]], reason |-> ""]
    ELSE [status |-> "pending", value |-> <<>>, reason |-> ""]

\* the names under which initializeModels registers the four models
ModelNames == {"empirical", "xgboost", "poisson", "markov"}

\* a slip in the initial weights: they add up to 1.05
initializeModelsUnnormalised ==
    [empirical |-> 30, xgboost |-> 40, poisson |-> 20, markov |-> 15]

\* initializeModels: the ensemble weights set by the constructor
initializeModels ==
    [empirical |-> 30, xgboost |-> 35, poisson |-> 20, markov |-> 15]

HookInit ==
    /\ isLoading = FALSE
    /\ error = None
    /\ prediction = None
    /\ calls = [c \in Callers |-> IdleCall]
    /\ ensembleWeights = initializeModels

\* predictMatch up to `await predictionEngine.predict(input)`
StartPredictMatch(c, input) ==
    /\ calls[c].pc = "idle"
    /\ isLoading' = TRUE
    /\ error' = None
    /\ calls' = [calls EXCEPT ![c] =
                    [kind |-> "match", pc |-> "awaiting", inputs |-> <<input>>,
                     tasks |-> <<PendingTask>>, ret |-> <<>>, toast |-> ""]]
    /\ UNCHANGED <<prediction, ensembleWeights>>
    /\ UNCHANGED statsVars
    /\ UNCHANGED <<engineVars, panelVars>>

PredictMatch(c) == \E input \in Inputs : StartPredictMatch(c, input)

\* updatePredictionWithHalftime: predictMatch on the input with the
\* half-time score filled in
UpdatePredictionWithHalftime(c) ==
    \E input \in Inputs, score \in {[home |-> 1, away |-> 0]} :
        StartPredictMatch(c, [input EXCEPT !.halftime_home_goals = Some(score.home),
                                           !.halftime_away_goals = Some(score.away)])

\* the predict call awaited by predictMatch settles; predictMatch runs on
\* through try / catch / finally and returns
ResumePredictMatch(c) ==
    /\ calls[c].kind = "match"
    /\ calls[c].pc = "awaiting"
    /\ \E task \in PredictOutcomes[calls[c].inputs[1]] :
          /\ IF task.status = "fulfilled"
             THEN /\ prediction' = Some(task.value[1])
                  /\ error' = error
                  /\ calls' = [calls EXCEPT ![c].tasks = <<task>>, ![c].pc = "done",
                                            ![c].ret = task.value,
                                            ![c].toast = "Predikció kész"]
             ELSE /\ prediction' = prediction
                  /\ error' = Some(task.reason)
                  /\ calls' = [calls EXCEPT ![c].tasks = <<task>>, ![c].pc = "done",
                                            ![c].ret = <<>>,
                                            ![c].toast = "Predikciós hiba"]
          /\ isLoading' = FALSE
    /\ UNCHANGED ensembleWeights
    /\ UNCHANGED statsVars
    /\ UNCHANGED <<engineVars, panelVars>>

\* the rest of predictBatch once Promise.all has settled as `all`
FinishBatch(call, all) ==
    IF all.status = "fulfilled"
    THEN [call EXCEPT !.pc = "done", !.ret = all.value, !.toast = "Batch predikció kész"]
    ELSE [call EXCEPT !.pc = "done", !.ret = <<>>, !.toast = "Batch predikciós hiba"]

\* predictBatch up to `await Promise.all(inputs.map(...))`; with no inputs
\* Promise.all is already fulfilled and the call runs to its end
PredictBatch(c) ==
    /\ calls[c].pc = "idle"
    /\ \E inputs \in BatchInputs :
          LET call == [kind |-> "batch", pc |-> "awaiting", inputs |-> inputs,
                       tasks |-> [i \in 1..Len(inputs) |-> PendingTask],
                       ret |-> <<>>, toast |-> ""]
          IN  IF Len(inputs) = 0
              THEN /\ calls' = [calls EXCEPT ![c] = FinishBatch(call, PromiseAll(call.tasks))]
                   /\ isLoading' = FALSE
              ELSE /\ calls' = [calls EXCEPT ![c] = call]
                   /\ isLoading' = TRUE
    /\ error' = None
    /\ UNCHANGED <<prediction, ensembleWeights>>
    /\ UNCHANGED statsVars
    /\ UNCHANGED <<engineVars, panelVars>>

\* one of the predict calls of a predictBatch settles; if that settles
\* Promise.all, predictBatch runs on through try / catch / finally
ResumePredictBatch(c) ==
    /\ calls[c].kind = "batch"
    /\ calls[c].pc = "awaiting"
    /\ \E i \in 1..Len(calls[c].tasks) :
          /\ calls[c].tasks[i].status = "pending"
          /\ \E settled \in PredictOutcomes[calls[c].inputs[i]] :
                LET tasks == [calls[c].tasks EXCEPT ![i] = settled]
                    all   == PromiseAll(tasks)
                    call  == [calls[c] EXCEPT !.tasks = tasks]
                IN  IF all.status = "pending"
                    THEN /\ calls' = [calls EXCEPT ![c] = call]
                         /\ UNCHANGED <<isLoading, error>>
                    ELSE /\ calls' = [calls EXCEPT ![c] = FinishBatch(call, all)]
                         /\ error' = IF all.status = "rejected" THEN Some(all.reason) ELSE error
                         /\ isLoading' = FALSE
    /\ UNCHANGED <<prediction, ensembleWeights>>
    /\ UNCHANGED statsVars
    /\ UNCHANGED <<engineVars, panelVars>>

\* clearPrediction
ClearPrediction ==
    /\ prediction' = None
    /\ error' = None
    /\ UNCHANGED <<isLoading, calls, ensembleWeights>>
    /\ UNCHANGED statsVars
    /\ UNCHANGED <<engineVars, panelVars>>

(***************************************************************************)
(* The statistics PredictionModal (types/prediction.ts): eight fixtures    *)
(* whose sides are picked from the team list, and runPredictions, which    *)
(* queries the matches of every fixture that has both teams set.           *)
(***************************************************************************)
\* Array.from({ length: 8 }, ...): the fixtures of the modal
NumFixtures == 8

\* the names the team list is made of
ClubNames == <<"Arsenal", "Barcelona", "Chelsea", "Dortmund", "Everton", "Fulham", "Getafe", "Hull">>

\* what fetchTeams resolves with: a list of distinct team names
TeamLists == {SubSeq(ClubNames, 1, n) : n \in 1..MaxTeams}

Sides == {"home", "away"}

\* the effect on opening: setSelectedMatches(emptyMatches)
EmptyMatches ==
    [index \in 1..NumFixtures |-> [id |-> index, home_team |-> "", away_team |-> ""]]

\* selectedMatches.find(m => m.id === currentMatchId)
FindMatch(selected, matchId) ==
    selected[CHOOSE i \in 1..Len(selected) : selected[i].id = matchId]

getUsedTeams(selected) ==
    {selected[i].home_team : i \in {j \in 1..Len(selected) : selected[j].home_team # ""}}
        \cup {selected[i].away_team : i \in {j \in 1..Len(selected) : selected[j].away_team # ""}}

\* getAvailableTeams with the exception for the current selection granted
\* to either side of the fixture
getAvailableTeamsEitherSide(selected, teamList, currentMatchId, side) ==
    LET usedTeams    == getUsedTeams(selected)
        currentMatch == FindMatch(selected, currentMatchId)
        Offered(team) ==
            IF team \in usedTeams
            THEN team = currentMatch.home_team \/ team = currentMatch.away_team
            ELSE TRUE
    IN  SelectSeq(teamList, Offered)

getAvailableTeams(selected, teamList, currentMatchId, side) ==
    LET usedTeams    == getUsedTeams(selected)
        currentMatch == FindMatch(selected, currentMatchId)
        Offered(team) ==
            IF team \in usedTeams
            THEN IF side = "home" /\ team = currentMatch.home_team THEN TRUE
                 ELSE IF side = "away" /\ team = currentMatch.away_team THEN TRUE
                 ELSE FALSE
            ELSE IF side = "home" /\ team = currentMatch.away_team THEN FALSE
            ELSE IF side = "away" /\ team = currentMatch.home_team THEN FALSE
            ELSE TRUE
    IN  SelectSeq(teamList, Offered)

updateMatch(selected, matchId, side, team) ==
    [i \in 1..Len(selected) |->
        IF selected[i].id = matchId
        THEN IF side = "home" THEN [selected[i] EXCEPT !.home_team = team]
                              ELSE [selected[i] EXCEPT !.away_team = team]
        ELSE selected[i]]

clearMatch(selected, matchId) ==
    [i \in 1..Len(selected) |->
        IF selected[i].id = matchId
        THEN [selected[i] EXCEPT !.home_team = "", !.away_team = ""]
        ELSE selected[i]]

\* selectedMatches.filter(match => match.home_team && match.away_team)
ValidMatches(selected) ==
    SelectSeq(selected, LAMBDA match : match.home_team # "" /\ match.away_team # "")

\* isValid: the Run button is enabled only with a fixture that has both teams
IsValid(selected) == ValidMatches(selected) # <<>>

\* the MatchStats runPredictions computes inline from a non-empty data
ModalStats(data) ==
    LET totalMatches  == Len(data)
        homeWins      == Count(data, LAMBDA m : m.result_computed = "H")
        draws         == Count(data, LAMBDA m : m.result_computed = "D")
        awayWins      == Count(data, LAMBDA m : m.result_computed = "A")
        bttsCount     == Count(data, LAMBDA m : m.btts_computed = TRUE)
        comebackCount == Count(data, LAMBDA m : m.comeback_computed = TRUE)
        totalGoals    == SeqSum([i \in 1..Len(data) |->
                            data[i].full_time_home_goals + data[i].full_time_away_goals])
    IN  [total_matches |-> totalMatches,
         home_wins |-> homeWins,
         draws |-> draws,
         away_wins |-> awayWins,
         btts_count |-> bttsCount,
         comeback_count |-> comebackCount,
         avg_goals |-> ToFixedDiv(totalGoals, totalMatches, 1),
         home_win_percentage |-> ToFixedPct(homeWins, totalMatches),
         draw_percentage |-> ToFixedPct(draws, totalMatches),
         away_win_percentage |-> ToFixedPct(awayWins, totalMatches),
         btts_percentage |-> ToFixedPct(bttsCount, totalMatches),
         comeback_percentage |-> ToFixedPct(comebackCount, totalMatches)]

\* what `await query` gives for one fixture: { data, error }
QueryError == [data |-> None, error |-> TRUE]

QueryRows(rows) == [data |-> Some(rows), error |-> FALSE]

\* the histories a fixture's query can find: one match, or three
DataSamples ==
    { << Row(1, 0, Some(1), Some(0), "H", FALSE, FALSE) >>,
      << Row(1, 2, Some(1), Some(0), "A", TRUE,  TRUE),
         Row(2, 2, Some(0), Some(1), "D", TRUE,  TRUE),
         Row(2, 0, None,    None,    "H", FALSE, FALSE) >> }

QueryResults == {QueryError, QueryRows(<<>>)} \cup {QueryRows(rows) : rows \in DataSamples}

NullEntry(match) == [match |-> match, stats |-> None, detailedStats |-> None]

\* the loop body with a catch that logs and pushes nothing
ProcessFixtureErrorDropped(results, match, response) ==
    IF response.error
    THEN results
    ELSE IF response.data # None /\ Len(response.data[1]) > 0
    THEN Append(results, [match |-> match,
                          stats |-> Some(ModalStats(response.data[1])),
                          detailedStats |-> Some(calculateDetailedStats(response.data[1]))])
    ELSE Append(results, NullEntry(match))

\* the body of `for (const match of validMatches)` once the query of match
\* has settled as response: the entry pushed onto results
ProcessFixture(results, match, response) ==
    IF response.error
    THEN Append(results, NullEntry(match))
    ELSE IF response.data # None /\ Len(response.data[1]) > 0
    THEN Append(results, [match |-> match,
                          stats |-> Some(ModalStats(response.data[1])),
                          detailedStats |-> Some(calculateDetailedStats(response.data[1]))])
    ELSE Append(results, NullEntry(match))

\* no runPredictions call under way
IdleRun ==
    [pc |-> "idle", validMatches |-> <<>>, results |-> <<>>, responses |-> <<>>,
     toast |-> ""]

\* the modal before it is opened
ModalIdle ==
    /\ teams = <<>>
    /\ selectedMatches = <<>>
    /\ predictionEntries = <<>>
    /\ loading = FALSE
    /\ run = IdleRun

\* loadTeams: fetchTeams resolves and the list is stored
LoadTeams ==
    /\ teams = <<>>
    /\ teams' \in TeamLists
    /\ UNCHANGED <<selectedMatches, predictionEntries, loading, run>>
    /\ UNCHANGED <<statsVars, hookVars, engineVars, builderVars>>

\* a team offered by the Select of one side of one fixture is picked
UpdateMatch ==
    /\ \E i \in 1..Len(selectedMatches), side \in Sides :
          LET options == getAvailableTeams(selectedMatches, teams, selectedMatches[i].id, side)
          IN  \E k \in 1..Len(options) :
                 /\ options[k] # (IF side = "home" THEN selectedMatches[i].home_team
                                                   ELSE selectedMatches[i].away_team)
                 /\ selectedMatches' =
                       updateMatch(selectedMatches, selectedMatches[i].id, side, options[k])
    /\ UNCHANGED <<teams, predictionEntries, loading, run>>
    /\ UNCHANGED <<statsVars, hookVars, engineVars, builderVars>>

\* the trash button, shown on a fixture with a team set
ClearMatch ==
    /\ \E i \in 1..Len(selectedMatches) :
          /\ selectedMatches[i].home_team # "" \/ selectedMatches[i].away_team # ""
          /\ selectedMatches' = clearMatch(selectedMatches, selectedMatches[i].id)
    /\ UNCHANGED <<teams, predictionEntries, loading, run>>
    /\ UNCHANGED <<statsVars, hookVars, engineVars, builderVars>>

\* runPredictions up to the first `await query`; the button is disabled
\* unless isValid and not loading
RunPredictions ==
    /\ IsValid(selectedMatches) /\ ~loading
    /\ LET validMatches == ValidMatches(selectedMatches)
       IN  IF Len(validMatches) = 0
           THEN /\ run' = [IdleRun EXCEPT !.pc = "done", !.toast = "destructive"]
                /\ UNCHANGED loading
           ELSE /\ run' = [IdleRun EXCEPT !.pc = "querying", !.validMatches = validMatches]
                /\ loading' = TRUE
    /\ UNCHANGED <<teams, selectedMatches, predictionEntries>>
    /\ UNCHANGED <<statsVars, hookVars, engineVars, builderVars>>

\* the query of the fixture in turn settles; after the last fixture the run
\* goes on through setPredictions, the toast and finally
QuerySettles ==
    /\ run.pc = "querying"
    /\ \E response \in QueryResults :
          LET match == run.validMatches[Len(run.responses) + 1]
              last  == Len(run.responses) + 1 = Len(run.validMatches)
          IN  /\ run' = [run EXCEPT
                            !.results = ProcessFixture(run.results, match, response),
                            !.responses = Append(run.responses, response),
                            !.pc = IF last THEN "done" ELSE @,
                            !.toast = IF last THEN "Predikciók elkészültek" ELSE @]
              /\ predictionEntries' = IF last THEN run'.results ELSE predictionEntries
              /\ loading' = IF last THEN FALSE ELSE loading
    /\ UNCHANGED <<teams, selectedMatches>>
    /\ UNCHANGED <<statsVars, hookVars, engineVars, builderVars>>

(***************************************************************************)
(* The prediction builder panel: calculatePrediction.                      *)
(***************************************************************************)
\* Math.round of the quotient n / d, d positive: floor(n / d + 0.5)
MathRound(n, d) == (2 * n + d) \div (2 * d)

\* a team name of the given length; calculatePrediction reads only the length
NameOfLength(n) == [i \in 1..n |-> "x"]

\* Math.round(35 + Math.random() * 30)
BttsChances == 35..65

\* Math.round((2.0 + Math.random() * 1.5) * 10) / 10, in tenths
AvgGoalsValues == 20..35

\* calculatePrediction; bttsChance and avgGoals are what the two
\* Math.random() draws gave.  The base values are kept as numerators over
\* 10 * totalStrength (homeAdvantage 1.2 is 12 / 10); for each of the 25
\* pairs of strengths the doubles round as these exact quotients do
calculatePrediction(homeTeam, awayTeam, bttsChance, avgGoals) ==
    LET homeStrength  == (Len(homeTeam) % 5) + 3
        awayStrength  == (Len(awayTeam) % 5) + 3
        totalStrength == homeStrength + awayStrength
        baseHomeWin   == homeStrength * 12 * 100
        baseAwayWin   == awayStrength * 10 * 100
        baseDraw      == 100 * 10 * totalStrength - baseHomeWin - baseAwayWin
        total         == baseHomeWin + baseAwayWin + baseDraw
        homeWinChance == MathRound(baseHomeWin * 100, total)
        awayWinChance == MathRound(baseAwayWin * 100, total)
        drawChance    == 100 - homeWinChance - awayWinChance
    IN  [homeTeam |-> homeTeam, awayTeam |-> awayTeam,
         homeWinChance |-> homeWinChance,
         drawChance |-> drawChance,
         awayWinChance |-> awayWinChance,
         bttsChance |-> bttsChance,
         avgGoals |-> avgGoals]

\* the panel before a fixture is given to calculatePrediction
BuilderIdle == fixturePair = <<>> /\ predictionResult = <<>>

CalculatePrediction ==
    /\ fixturePair # <<>> /\ predictionResult = <<>>
    /\ \E bttsChance \in BttsChances, avgGoals \in AvgGoalsValues :
          predictionResult' =
              Some(calculatePrediction(fixturePair[1].homeTeam, fixturePair[1].awayTeam,
                                       bttsChance, avgGoals))
    /\ UNCHANGED fixturePair
    /\ UNCHANGED <<statsVars, hookVars, engineVars, modalVars>>

(***************************************************************************)
(* Specifications.                                                         *)
(***************************************************************************)
\* nothing asked of the engine's parts or of the modal yet
EngineIdle ==
    /\ table = <<>>
    /\ featureBundle = <<>>
    /\ modelOutputs = <<>>
    /\ combined = <<>>
    /\ displayed = <<>>
    /\ highest = <<>>
    /\ quality = <<>>
    /\ metadata = <<>>

Init == StatsIdle /\ HookInit /\ EngineIdle /\ ModalIdle /\ BuilderIdle

Next ==
    \/ \E c \in Callers : PredictMatch(c)
    \/ \E c \in Callers : UpdatePredictionWithHalftime(c)
    \/ \E c \in Callers : ResumePredictMatch(c)
    \/ \E c \in Callers : PredictBatch(c)
    \/ \E c \in Callers : ResumePredictBatch(c)
    \/ ClearPrediction

\* the hook and the engine
Spec == Init /\ [][Next]_vars

StatsInit ==
    /\ matches \in ShortInputs \cup BulkInputs
    /\ basic = <<>>
    /\ detailed = <<>>
    /\ HookInit
    /\ ModalIdle /\ BuilderIdle
    /\ EngineIdle

StatsNext == CalculateBasicStats \/ CalculateDetailedStats

\* the statistics aggregator: one of its functions applied to one list of rows
SpecStats == StatsInit /\ [][StatsNext]_vars

(***************************************************************************)
(* Feature preparation as a state machine: prepareFeatures runs its five   *)
(* queries on a matches table and builds the bundle.  A row's match_time   *)
(* is its position in the table, so no two rows are equally new.           *)
(***************************************************************************)
\* the kinds of rows of the short tables: home, away, score, comeback
TableKinds ==
    { <<"A", "B", 2, 0, FALSE>>, <<"A", "B", 1, 1, FALSE>>, <<"B", "A", 2, 1, TRUE>>,
      <<"B", "A", 0, 1, FALSE>>, <<"A", "C", 0, 0, FALSE>>, <<"C", "B", 1, 3, FALSE>> }

RowOfKind(k, time) == Played(k[1], k[2], k[3], k[4], k[5], time)

ShortTables ==
    UNION {{[i \in 1..n |-> RowOfKind(ks[i], i)] : ks \in [1..n -> TableKinds]} :
              n \in 0..MaxRows}

\* a long history of team A: home and away matches alternate, against B
\* and C in turn, the scores cycling through win, draw and loss from phase p
LongTable(n, p) ==
    [i \in 1..(2 * n) |->
        LET j == (i + 1) \div 2
            other == IF j % 2 = 1 THEN "B" ELSE "C"
            score == CASE (j + p) % 3 = 0 -> <<2, 0>>
                       [] (j + p) % 3 = 1 -> <<1, 1>>
                       [] (j + p) % 3 = 2 -> <<0, 1>>
        IN  IF i % 2 = 1
            THEN Played("A", other, score[1], score[2], FALSE, i)
            ELSE Played(other, "A", score[1], score[2], (j + p) % 3 = 0, i)]

LongTables == {LongTable(n, p) : n \in (MaxRows + 1)..MaxHistory, p \in 0..2}

FeaturesInit ==
    /\ StatsIdle
    /\ HookInit
    /\ ModalIdle /\ BuilderIdle
    /\ table \in ShortTables \cup LongTables
    /\ featureBundle = <<>>
    /\ modelOutputs = <<>>
    /\ combined = <<>>
    /\ displayed = <<>>
    /\ highest = <<>>
    /\ quality = <<>>
    /\ metadata = <<>>

\* prepareFeatures(input) with every query resolving on the table
PrepareFeatures(input) ==
    /\ featureBundle = <<>>
    /\ featureBundle' = Some(prepareFeatures(input, TableResponses(table, input)))
    /\ UNCHANGED <<table, modelOutputs, combined, displayed, highest, quality, metadata>>
    /\ UNCHANGED <<statsVars, hookVars, panelVars>>

FeaturesNext == \E input \in Inputs : PrepareFeatures(input)

SpecFeatures == FeaturesInit /\ [][FeaturesNext]_vars

(***************************************************************************)
(* The ensemble as a state machine: the models are applied to a feature    *)
(* bundle, combineModels to the outputs of those that ran, and the modal's *)
(* getHighestProbability to a displayed prediction.                        *)
(***************************************************************************)
\* half-time scores of the inputs the bundles are prepared for: none, home
\* lead, level, away lead, and a home score without an away score
HalftimeScores ==
    { <<None, None>>, <<Some(1), Some(0)>>, <<Some(0), Some(0)>>,
      <<Some(0), Some(1)>>, <<Some(1), None>> }

\* feature bundles: every query found nothing, or every query found a row
FeatureBundles ==
    {prepareFeatures(Input("A", "B", ht[1], ht[2]),
                     [q \in QueryNames |->
                         QueryOutcome(q, Input("A", "B", ht[1], ht[2]), how)]) :
        ht \in HalftimeScores, how \in {"empty", "rows"}}

\* displayed predictions: every triple of multiples of 0.2 that adds up to 1
DisplayedOutputs ==
    {[predictions |->
         [home_win_probability |-> 20 * t[1],
          draw_probability |-> 20 * t[2],
          away_win_probability |-> 20 * t[3]]] :
        t \in {u \in (0..5) \X (0..5) \X (0..5) : u[1] + u[2] + u[3] = 5}}

EnsembleInit ==
    /\ StatsIdle
    /\ HookInit
    /\ ModalIdle /\ BuilderIdle
    /\ table = <<>>
    /\ featureBundle \in {Some(f) : f \in FeatureBundles}
    /\ modelOutputs = <<>>
    /\ combined = <<>>
    /\ displayed \in {Some(p) : p \in DisplayedOutputs}
    /\ highest = <<>>
    /\ quality = <<>>
    /\ metadata = <<>>

\* one registered model is applied to the bundle
RunModel(name) ==
    /\ name \notin DOMAIN modelOutputs
    /\ combined = <<>>
    /\ modelOutputs' =
          [n \in DOMAIN modelOutputs \cup {name} |->
              IF n = name THEN ModelPredict(name, featureBundle[1]) ELSE modelOutputs[n]]
    /\ UNCHANGED <<table, featureBundle, combined, displayed, highest, quality, metadata>>
    /\ UNCHANGED <<statsVars, hookVars, panelVars>>

\* the explanations of the models that ran, in registry order
Explanations ==
    LET ran == SelectSeq(RegistryOrder, LAMBDA n : n \in DOMAIN modelOutputs)
    IN  [i \in 1..Len(ran) |->
            Explanation(ran[i], ensembleWeights[ran[i]], modelOutputs[ran[i]])]

\* combineModels is applied to the outputs of the models that ran
CombineModels ==
    /\ combined = <<>>
    /\ Len(Explanations) >= 1
    /\ combined' = Some(combineModels(Explanations))
    /\ UNCHANGED <<table, featureBundle, modelOutputs, displayed, highest, quality, metadata>>
    /\ UNCHANGED <<statsVars, hookVars, panelVars>>

\* the modal works out the headline of the displayed prediction
GetHighestProbability ==
    /\ highest = <<>>
    /\ highest' = Some(getHighestProbability(displayed[1]))
    /\ UNCHANGED <<table, featureBundle, modelOutputs, combined, displayed, quality, metadata>>
    /\ UNCHANGED <<statsVars, hookVars, panelVars>>

EnsembleNext ==
    \/ \E name \in ModelNames : RunModel(name)
    \/ CombineModels
    \/ GetHighestProbability

SpecEnsemble == EnsembleInit /\ [][EnsembleNext]_vars

(***************************************************************************)
(* The metadata step of predict as a state machine: the metadata is        *)
(* assembled for a combined prediction and a data-quality score.           *)
(***************************************************************************)
\* scores between 0 and 1, around the thresholds the engine compares with
Scores == {10, 30, 50, 59, 60, 69, 70, 79, 80, 85, 100}

\* combined predictions: what combineModels returns, with any confidence
FinalPredictions ==
    {[combineModels(<<>>) EXCEPT !.confidence_score = c] : c \in Scores}

MetadataInit ==
    /\ StatsIdle
    /\ HookInit
    /\ ModalIdle /\ BuilderIdle
    /\ table = <<>>
    /\ featureBundle \in {Some(f) : f \in FeatureBundles}
    /\ modelOutputs = <<>>
    /\ combined \in {Some(p) : p \in FinalPredictions}
    /\ displayed = <<>>
    /\ highest = <<>>
    /\ quality \in {Some(q) : q \in Scores}
    /\ metadata = <<>>

\* step 5 of predict: the metadata of the output is put together
AssembleMetadata ==
    /\ metadata = <<>>
    /\ metadata' = Some(PredictionMetadata(featureBundle[1], quality[1], combined[1]))
    /\ UNCHANGED <<table, featureBundle, modelOutputs, combined, displayed, highest, quality>>
    /\ UNCHANGED <<statsVars, hookVars, panelVars>>

MetadataNext == AssembleMetadata

SpecMetadata == MetadataInit /\ [][MetadataNext]_vars

\* the modal once opened: eight empty fixtures, the team list on its way
SelectInit ==
    /\ StatsIdle /\ HookInit /\ EngineIdle /\ BuilderIdle
    /\ teams = <<>>
    /\ selectedMatches = EmptyMatches
    /\ predictionEntries = <<>>
    /\ loading = FALSE
    /\ run = IdleRun

SelectNext == LoadTeams \/ UpdateMatch \/ ClearMatch

\* the fixture selection of the statistics PredictionModal
SpecSelect == SelectInit /\ [][SelectNext]_vars

\* the ids of the fixtures that have both teams, of those at most MaxValid
ValidIdSets == {S \in SUBSET (1..NumFixtures) : Cardinality(S) <= MaxValid}

\* a selection as the Selects allow it: the fixtures of S have both teams,
\* the first other fixture only a home team, the last other only an away team
SelectionWith(S) ==
    LET free   == (1..NumFixtures) \ S
        lowest == CHOOSE i \in free : \A j \in free : i <= j
        last   == CHOOSE i \in free : \A j \in free : j <= i
        Rank(i) == Cardinality({j \in S : j <= i})
    IN  [i \in 1..NumFixtures |->
            IF i \in S
            THEN [id |-> i, home_team |-> ClubNames[2 * Rank(i) - 1],
                            away_team |-> ClubNames[2 * Rank(i)]]
            ELSE IF i = lowest
            THEN [id |-> i, home_team |-> ClubNames[2 * MaxValid + 1], away_team |-> ""]
            ELSE IF i = last
            THEN [id |-> i, home_team |-> "", away_team |-> ClubNames[2 * MaxValid + 2]]
            ELSE [id |-> i, home_team |-> "", away_team |-> ""]]

RunInit ==
    /\ StatsIdle /\ HookInit /\ EngineIdle /\ BuilderIdle
    /\ teams = SubSeq(ClubNames, 1, 2 * MaxValid + 2)
    /\ selectedMatches \in {SelectionWith(S) : S \in ValidIdSets}
    /\ predictionEntries = <<>>
    /\ loading = FALSE
    /\ run = IdleRun

RunNext == RunPredictions \/ QuerySettles

\* runPredictions of the statistics PredictionModal on a given selection
SpecRun == RunInit /\ [][RunNext]_vars

BuilderInit ==
    /\ StatsIdle /\ HookInit /\ EngineIdle /\ ModalIdle
    /\ fixturePair \in {Some([homeTeam |-> NameOfLength(h), awayTeam |-> NameOfLength(a)]) :
                           h \in 0..MaxNameLen, a \in 0..MaxNameLen}
    /\ predictionResult = <<>>

BuilderNext == CalculatePrediction

\* calculatePrediction of the prediction builder panel
SpecBuilder == BuilderInit /\ [][BuilderNext]_vars

(***************************************************************************)
(* Properties of the statistics aggregator (SpecStats).  What a property   *)
(* expects is counted from the rows themselves.                            *)
(***************************************************************************)
\* the indices of the rows with property P
Where(P(_)) == {i \in 1..Len(matches) : P(matches[i])}

\* n/d rounded to the nearest integer, a half rounded away from zero
HalfAway(n, d) == (2 * n + d) \div (2 * d)

\* v is n/d rounded to a nearest integer (either one on a half)
Nearest(v, n, d) == 2 * v * d - 2 * n <= d /\ 2 * n - 2 * v * d <= d

\* C1: for a non-empty list whose rows all have result H, D or A, the three
\* outcome percentages of calculateBasicStats add up to 100.0 within 0.2
\* (percentages are in tenths: 998..1002)
C1_OutcomePercentagesSum ==
    (/\ basic # <<>>
     /\ Len(matches) > 0
     /\ \A i \in 1..Len(matches) : matches[i].result_computed \in {"H", "D", "A"})
    => LET b == basic[1]
           sum == b.home_win_percentage + b.draw_percentage + b.away_win_percentage
       IN  998 <= sum /\ sum <= 1002

\* a list on which the three rounded percentages do not add up to 100.0
C1_Witness ==
    /\ basic # <<>>
    /\ Len(matches) > 0
    /\ basic[1].home_win_percentage + basic[1].draw_percentage
         + basic[1].away_win_percentage = 999

AllZero(rec) == \A f \in DOMAIN rec : rec[f] = 0

\* C2: on the empty list calculateBasicStats and calculateDetailedStats
\* return every count, average and percentage as 0 and no frequent result
C2_EmptyInputAllZero ==
    matches = <<>> =>
        /\ basic # <<>> => AllZero(basic[1])
        /\ detailed # <<>> =>
              /\ AllZero(detailed[1].basic)
              /\ AllZero(detailed[1].goalStats)
              /\ AllZero(detailed[1].overUnder)
              /\ AllZero(detailed[1].halfTimeAnalysis)
              /\ detailed[1].frequentResults = <<>>

\* calculateDetailedStats (and with it calculateBasicStats) has run on []
C2_Witness == matches = <<>> /\ detailed # <<>> /\ detailed[1].basic.total_matches = 0

\* C3: for a non-empty list each percentage of calculateBasicStats is its
\* count / total_matches * 100 and avg_goals is the goals / total_matches,
\* each rounded to one decimal with a half rounded away from zero
C3_RoundedHalfAwayFromZero ==
    (basic # <<>> /\ Len(matches) > 0) =>
        LET b == basic[1]
            n == Len(matches)
            goals == SeqSum([i \in 1..n |->
                         matches[i].full_time_home_goals + matches[i].full_time_away_goals])
            Pct(P(_)) == HalfAway(1000 * Cardinality(Where(P)), n)
        IN  /\ b.total_matches = n
            /\ b.home_win_percentage = Pct(LAMBDA m : m.result_computed = "H")
            /\ b.draw_percentage = Pct(LAMBDA m : m.result_computed = "D")
            /\ b.away_win_percentage = Pct(LAMBDA m : m.result_computed = "A")
            /\ b.btts_percentage = Pct(LAMBDA m : m.btts_computed)
            /\ b.comeback_percentage = Pct(LAMBDA m : m.comeback_computed)
            /\ b.avg_goals = HalfAway(10 * goals, n)

\* the example of C3: 20 matches, 12 H / 5 D / 3 A and 54 goals give 2.7,
\* 60.0, 25.0 and 15.0
C3_ExampleHolds ==
    (/\ basic # <<>>
     /\ Len(matches) = 20
     /\ Cardinality(Where(LAMBDA m : m.result_computed = "H")) = 12
     /\ Cardinality(Where(LAMBDA m : m.result_computed = "D")) = 5
     /\ SeqSum([i \in 1..Len(matches) |->
            matches[i].full_time_home_goals + matches[i].full_time_away_goals]) = 54)
    => /\ basic[1].avg_goals = 27
       /\ basic[1].home_win_percentage = 600
       /\ basic[1].draw_percentage = 250
       /\ basic[1].away_win_percentage = 150

\* the scorelines of the list and how often each occurs
Scorelines == {<<matches[i].full_time_home_goals, matches[i].full_time_away_goals>> :
                  i \in 1..Len(matches)}

Occurrences(k) ==
    Cardinality(Where(LAMBDA m : <<m.full_time_home_goals, m.full_time_away_goals>> = k))

\* the index of the first row with scoreline k
FirstSeen(k) ==
    CHOOSE i \in 1..Len(matches) :
        /\ <<matches[i].full_time_home_goals, matches[i].full_time_away_goals>> = k
        /\ \A j \in 1..(i - 1) :
              <<matches[j].full_time_home_goals, matches[j].full_time_away_goals>> # k

\* C4: frequentResults has at most 4 entries, ordered by count
\* non-increasing; they are the scorelines with the highest counts, each
\* with its count and count / total_matches * 100 rounded to one decimal
C4_FrequentResultsTop4 ==
    detailed # <<>> =>
        LET fr == detailed[1].frequentResults
            n  == Len(matches)
        IN  /\ Len(fr) <= 4
            /\ Len(fr) = (IF Cardinality(Scorelines) < 4 THEN Cardinality(Scorelines) ELSE 4)
            /\ \A i, j \in 1..Len(fr) : i < j =>
                  fr[i].count >= fr[j].count /\ fr[i].result # fr[j].result
            /\ \A i \in 1..Len(fr) :
                  /\ fr[i].result \in Scorelines
                  /\ fr[i].count = Occurrences(fr[i].result)
                  /\ Nearest(fr[i].percentage, 1000 * fr[i].count, n)
                  /\ \A k \in Scorelines \ {fr[j].result : j \in 1..Len(fr)} :
                        Occurrences(k) <= fr[i].count

\* more than 4 scorelines, with different counts among the 4 that are kept
C4_Witness ==
    /\ detailed # <<>>
    /\ Cardinality(Scorelines) > 4
    /\ Len(detailed[1].frequentResults) = 4
    /\ detailed[1].frequentResults[1].count > detailed[1].frequentResults[4].count

\* C5: of two scorelines with the same count the one seen first in the list
\* comes first in frequentResults, and it is also the one kept when only
\* one of them fits into the 4 entries
C5_TiesInFirstSeenOrder ==
    detailed # <<>> =>
        LET fr == detailed[1].frequentResults
        IN  /\ \A i, j \in 1..Len(fr) :
                  (i < j /\ fr[i].count = fr[j].count) =>
                      FirstSeen(fr[i].result) < FirstSeen(fr[j].result)
            /\ \A i \in 1..Len(fr) :
                  \A k \in Scorelines \ {fr[j].result : j \in 1..Len(fr)} :
                      Occurrences(k) = fr[i].count => FirstSeen(fr[i].result) < FirstSeen(k)

\* a scoreline is cut off although it occurs as often as the last one kept,
\* and two kept scorelines tie
C5_Witness ==
    /\ detailed # <<>>
    /\ Len(detailed[1].frequentResults) = 4
    /\ detailed[1].frequentResults[3].count = detailed[1].frequentResults[4].count
    /\ \E k \in Scorelines \ {detailed[1].frequentResults[j].result : j \in 1..4} :
          Occurrences(k) = detailed[1].frequentResults[4].count

\* the recorded half-time goals of a row, a missing count read as 0
RecordedOrZero(x) == IF x = <<>> THEN 0 ELSE x[1]

HomeLedAtHalfTime(m) ==
    RecordedOrZero(m.half_time_home_goals) > RecordedOrZero(m.half_time_away_goals)

AwayLedAtHalfTime(m) ==
    RecordedOrZero(m.half_time_away_goals) > RecordedOrZero(m.half_time_home_goals)

\* C6: a lead-hold percentage is 0 when that side never led at half-time,
\* and otherwise the share of its half-time leads that ended in its own
\* full-time win, times 100, rounded to one decimal
C6_LeadHoldPercentage ==
    detailed # <<>> =>
        LET h == detailed[1].halfTimeAnalysis
            homeHeld == Cardinality(Where(LAMBDA m :
                            HomeLedAtHalfTime(m) /\ m.full_time_home_goals > m.full_time_away_goals))
            awayHeld == Cardinality(Where(LAMBDA m :
                            AwayLedAtHalfTime(m) /\ m.full_time_away_goals > m.full_time_home_goals))
        IN  /\ h.ht_home_leads = Cardinality(Where(HomeLedAtHalfTime))
            /\ h.ht_away_leads = Cardinality(Where(AwayLedAtHalfTime))
            /\ IF h.ht_home_leads = 0
               THEN h.home_lead_hold_percentage = 0
               ELSE Nearest(h.home_lead_hold_percentage, 1000 * homeHeld, h.ht_home_leads)
            /\ IF h.ht_away_leads = 0
               THEN h.away_lead_hold_percentage = 0
               ELSE Nearest(h.away_lead_hold_percentage, 1000 * awayHeld, h.ht_away_leads)

\* the home side led three times and held one lead (33.3), the away side
\* never led although matches were played
C6_Witness ==
    /\ detailed # <<>>
    /\ detailed[1].halfTimeAnalysis.ht_home_leads = 3
    /\ detailed[1].halfTimeAnalysis.home_lead_hold_percentage = 333
    /\ detailed[1].halfTimeAnalysis.ht_away_leads = 0
    /\ detailed[1].halfTimeAnalysis.away_lead_hold_percentage = 0

NoHalfTimeScore(m) == m.half_time_home_goals = <<>> /\ m.half_time_away_goals = <<>>

\* C7: a row without half-time goals counts as level at half-time (in
\* ht_draws, never as a lead), and the full-time goals enter the totals as
\* recorded
C7_MissingHalfTimeIsLevel ==
    detailed # <<>> =>
        LET d == detailed[1]
            n == Len(matches)
        IN  /\ d.halfTimeAnalysis.ht_draws =
                  Cardinality(Where(LAMBDA m :
                      \/ NoHalfTimeScore(m)
                      \/ (~NoHalfTimeScore(m) /\ ~HomeLedAtHalfTime(m) /\ ~AwayLedAtHalfTime(m))))
            /\ d.halfTimeAnalysis.ht_home_leads =
                  Cardinality(Where(LAMBDA m : ~NoHalfTimeScore(m) /\ HomeLedAtHalfTime(m)))
            /\ d.halfTimeAnalysis.ht_away_leads =
                  Cardinality(Where(LAMBDA m : ~NoHalfTimeScore(m) /\ AwayLedAtHalfTime(m)))
            /\ d.goalStats.home_goals_total =
                  SeqSum([i \in 1..n |-> matches[i].full_time_home_goals])
            /\ d.goalStats.away_goals_total =
                  SeqSum([i \in 1..n |-> matches[i].full_time_away_goals])

\* a 2-0 win without half-time goals next to a match with a half-time lead
C7_Witness ==
    /\ detailed # <<>>
    /\ \E i \in 1..Len(matches) :
          NoHalfTimeScore(matches[i]) /\ matches[i].full_time_home_goals = 2
    /\ detailed[1].halfTimeAnalysis.ht_draws = 1
    /\ detailed[1].halfTimeAnalysis.ht_home_leads = 1
    /\ detailed[1].goalStats.home_goals_total = 3

(***************************************************************************)
(* Properties of the hook and the engine (Spec).                           *)
(***************************************************************************)
\* the predictBatch calls that have returned
ReturnedBatches == {c \in Callers : calls[c].kind = "batch" /\ calls[c].pc = "done"}

\* C8: when predictBatch has returned, the prediction of every element whose
\* predict call succeeded is in the returned array, at the element's
\* position, whatever happened to the other elements
C8_BatchKeepsSiblingResults ==
    \A c \in ReturnedBatches :
        \A i \in 1..Len(calls[c].tasks) :
            calls[c].tasks[i].status = "fulfilled" =>
                /\ i <= Len(calls[c].ret)
                /\ calls[c].ret[i] = calls[c].tasks[i].value[1]

\* C9: the array predictBatch returns is as long as its input array
\* (and, element by element, holds what the predict calls produced)
C9_BatchResultMatchesInputs ==
    \A c \in ReturnedBatches :
        /\ Len(calls[c].ret) = Len(calls[c].inputs)
        /\ \A i \in 1..Len(calls[c].ret) :
              calls[c].tasks[i].value = <<calls[c].ret[i]>>

\* C10: a predict call fails exactly when one of its queries failed
C10_FailsIffQueryFails ==
    \A c \in Callers :
        \A i \in 1..Len(calls[c].tasks) :
            calls[c].tasks[i].status # "pending" =>
                (calls[c].tasks[i].status = "rejected" <=> calls[c].tasks[i].upstream_failed)

\* the half of C10 about missing history: a predict call whose queries all
\* succeeded is fulfilled, also when some of them found no rows
C10_NoHistoryNeverFails ==
    \A c \in Callers :
        \A i \in 1..Len(calls[c].tasks) :
            (calls[c].tasks[i].status # "pending" /\ ~calls[c].tasks[i].upstream_failed) =>
                calls[c].tasks[i].status = "fulfilled"

\* an input without a home or an away team identifier
MissingTeam(input) == input.home_team = "" \/ input.away_team = ""

\* C11: a predict call whose input lacks a team identifier is rejected, and
\* it has issued no match query
C11_MissingTeamRejectedBeforeQuery ==
    \A c \in Callers :
        \A i \in 1..Len(calls[c].tasks) :
            (calls[c].tasks[i].status # "pending" /\ MissingTeam(calls[c].inputs[i])) =>
                /\ calls[c].tasks[i].status = "rejected"
                /\ calls[c].tasks[i].queries = {}

\* the sum of the values of a weight map
RECURSIVE SumOver(_, _)
SumOver(w, names) ==
    IF names = {} THEN 0
    ELSE LET n == CHOOSE x \in names : TRUE
         IN  w[n] + SumOver(w, names \ {n})

\* no predictMatch or predictBatch call has been made yet
NoCallYet == \A c \in Callers : calls[c].pc = "idle"

\* C13: the weight map starts as empirical 0.30, xgboost 0.35, poisson 0.20,
\* markov 0.15, and in every reachable state, however the predict calls
\* interleave, its values add up to 1.0
C13_WeightsSumToOne ==
    /\ DOMAIN ensembleWeights = ModelNames
    /\ SumOver(ensembleWeights, ModelNames) = 100
    /\ NoCallYet =>
          /\ ensembleWeights["empirical"] = 30
          /\ ensembleWeights["xgboost"] = 35
          /\ ensembleWeights["poisson"] = 20
          /\ ensembleWeights["markov"] = 15

\* two predict calls overlap: one has settled while the other is in flight
C13_Witness ==
    /\ calls["c1"].pc = "awaiting"
    /\ calls["c2"].pc = "done"
    /\ calls["c2"].tasks # <<>>
    /\ SumOver(ensembleWeights, ModelNames) = 100


(***************************************************************************)
(* Properties of the ensemble (SpecEnsemble).                              *)
(***************************************************************************)
\* C14: the three probabilities combineModels returns add up to 1.0,
\* whichever 1 to 4 model outputs it was given
C14_CombinedTripleSumsToOne ==
    combined # <<>> =>
        /\ Cardinality(DOMAIN modelOutputs) \in 1..4
        /\ combined[1].home_win_probability + combined[1].draw_probability
              + combined[1].away_win_probability = 100

\* combineModels has been applied to the outputs of exactly k models
CombinedFrom(k) == combined # <<>> /\ Cardinality(DOMAIN modelOutputs) = k

C14_Witness ==
    /\ CombinedFrom(3)
    /\ combined[1].home_win_probability + combined[1].draw_probability
          + combined[1].away_win_probability = 100

\* the outcome with the largest of three probabilities, H before D before A
MostLikely(h, d, a) ==
    IF h >= d /\ h >= a THEN "H" ELSE IF d >= a THEN "D" ELSE "A"

\* the modal's label of an outcome
OutcomeLabel(o) ==
    CASE o = "H" -> "Hazai" [] o = "D" -> "Döntetlen" [] o = "A" -> "Vendég"

\* C15: most_likely_outcome is an outcome of maximal combined probability,
\* ties going to H before D before A, and getHighestProbability names the
\* outcome chosen by the same rule
C15_MostLikelyOutcomeTieBreak ==
    /\ combined # <<>> =>
          combined[1].most_likely_outcome =
              MostLikely(combined[1].home_win_probability, combined[1].draw_probability,
                         combined[1].away_win_probability)
    /\ highest # <<>> =>
          /\ highest[1].type =
                OutcomeLabel(MostLikely(displayed[1].predictions.home_win_probability,
                                        displayed[1].predictions.draw_probability,
                                        displayed[1].predictions.away_win_probability))
          /\ highest[1].value =
                Max3(displayed[1].predictions.home_win_probability,
                     displayed[1].predictions.draw_probability,
                     displayed[1].predictions.away_win_probability)

\* the triple (0.4, 0.4, 0.2) is displayed and reported as a home win, next
\* to a combined prediction of the engine
C15_Witness ==
    /\ combined # <<>>
    /\ combined[1].most_likely_outcome = "H"
    /\ highest # <<>>
    /\ displayed[1].predictions.home_win_probability = 40
    /\ displayed[1].predictions.draw_probability = 40
    /\ displayed[1].predictions.away_win_probability = 20
    /\ highest[1].type = "Hazai"

\* C16: what each registered model returns is a probability triple (no
\* negative value, sum 1.0) with a confidence between 0 and 1
C16_ModelOutputsAreDistributions ==
    \A n \in DOMAIN modelOutputs :
        /\ modelOutputs[n].home_win >= 0
        /\ modelOutputs[n].draw >= 0
        /\ modelOutputs[n].away_win >= 0
        /\ modelOutputs[n].home_win + modelOutputs[n].draw + modelOutputs[n].away_win = 100
        /\ modelOutputs[n].confidence \in 0..100

\* all four models have been applied to a bundle with head-to-head history
C16_Witness ==
    /\ DOMAIN modelOutputs = ModelNames
    /\ featureBundle[1].head_to_head.matches_played > 0
    /\ \A n \in ModelNames :
          modelOutputs[n].home_win + modelOutputs[n].draw + modelOutputs[n].away_win = 100

\* the row of transition matrix m for the half-time state hs, as a triple
MatrixRow(m, hs) ==
    IF hs.goal_difference > 0 THEN <<m.ht_h_to_ft_h, m.ht_h_to_ft_d, m.ht_h_to_ft_a>>
    ELSE IF hs.goal_difference = 0 THEN <<m.ht_d_to_ft_h, m.ht_d_to_ft_d, m.ht_d_to_ft_a>>
    ELSE <<m.ht_a_to_ft_h, m.ht_a_to_ft_d, m.ht_a_to_ft_a>>

\* C19: without head-to-head history and with a half-time score in the
\* input, the Markov model's triple is the row of the default transition
\* matrix for the half-time state
C19_MarkovUsesDefaultMatrixRow ==
    ("markov" \in DOMAIN modelOutputs
        /\ featureBundle[1].head_to_head.matches_played = 0
        /\ featureBundle[1].halftime_state # None) =>
            <<modelOutputs["markov"].home_win, modelOutputs["markov"].draw,
              modelOutputs["markov"].away_win>>
                = MatrixRow(getDefaultTransitionMatrix, featureBundle[1].halftime_state[1])


(***************************************************************************)
(* Properties of feature preparation (SpecFeatures).  What a property      *)
(* expects is read from the rows of the table.                             *)
(***************************************************************************)
\* a prepared bundle's transition matrix
BundleMatrix == featureBundle[1].head_to_head.transition_matrix

\* C17: in every transition matrix the engine produces, for an empty or a
\* non-empty head-to-head sample, each of the three rows adds up to 1.0
C17_TransitionRowsSumToOne ==
    featureBundle # <<>> =>
        /\ BundleMatrix.ht_h_to_ft_h + BundleMatrix.ht_h_to_ft_d + BundleMatrix.ht_h_to_ft_a = 100
        /\ BundleMatrix.ht_d_to_ft_h + BundleMatrix.ht_d_to_ft_d + BundleMatrix.ht_d_to_ft_a = 100
        /\ BundleMatrix.ht_a_to_ft_h + BundleMatrix.ht_a_to_ft_d + BundleMatrix.ht_a_to_ft_a = 100

\* a matrix computed for a head-to-head sample of several matches
C17_Witness ==
    /\ featureBundle # <<>>
    /\ featureBundle[1].head_to_head.matches_played >= 2
    /\ BundleMatrix.ht_d_to_ft_h + BundleMatrix.ht_d_to_ft_d + BundleMatrix.ht_d_to_ft_a = 100

\* the rows of the table in which the two teams of the bundle met
MeetingsInTable ==
    LET h == featureBundle[1].home_team.team_id
        a == featureBundle[1].away_team.team_id
    IN  {i \in 1..Len(table) :
            \/ (table[i].home_team = h /\ table[i].away_team = a)
            \/ (table[i].home_team = a /\ table[i].away_team = h)}

\* a quotient that is 0
IsZero(r) == r[1] = 0 /\ r[2] # 0

\* C18: when the two teams never met, the head-to-head features are
\* matches_played 0, home_advantage 0, avg_goals 0, btts_rate 0 and the
\* default matrix 0.65 0.25 0.10 / 0.35 0.30 0.35 / 0.10 0.25 0.65
C18_EmptyHeadToHeadDefaults ==
    (featureBundle # <<>> /\ MeetingsInTable = {}) =>
        /\ featureBundle[1].head_to_head.matches_played = 0
        /\ IsZero(featureBundle[1].head_to_head.home_advantage)
        /\ IsZero(featureBundle[1].head_to_head.avg_goals)
        /\ IsZero(featureBundle[1].head_to_head.btts_rate)
        /\ BundleMatrix =
              [ht_h_to_ft_h |-> 65, ht_h_to_ft_d |-> 25, ht_h_to_ft_a |-> 10,
               ht_d_to_ft_h |-> 35, ht_d_to_ft_d |-> 30, ht_d_to_ft_a |-> 35,
               ht_a_to_ft_h |-> 10, ht_a_to_ft_d |-> 25, ht_a_to_ft_a |-> 65]

\* the table has rows, but none in which the two teams of the bundle met
C18_Witness ==
    /\ featureBundle # <<>>
    /\ MeetingsInTable = {}
    /\ Len(table) >= 2
    /\ featureBundle[1].home_team.team_id = "A"
    /\ featureBundle[1].head_to_head.matches_played = 0

\* the rows of the table that team t played at home, and away
HomeRowsOf(t) == {i \in 1..Len(table) : table[i].home_team = t}

AwayRowsOf(t) == {i \in 1..Len(table) : table[i].away_team = t}

\* the i-th newest row among the rows S
NthNewest(S, i) ==
    CHOOSE r \in S :
        Cardinality({q \in S : table[q].match_time > table[r].match_time}) = i - 1

Min(a, b) == IF a <= b THEN a ELSE b

\* 1 / 0.5 / 0 (in halves) for the home side's, and the away side's, win /
\* draw / loss, from the full-time score
HomePoints(m) ==
    IF m.full_time_home_goals > m.full_time_away_goals THEN 2
    ELSE IF m.full_time_home_goals = m.full_time_away_goals THEN 1 ELSE 0

AwayPoints(m) ==
    IF m.full_time_away_goals > m.full_time_home_goals THEN 2
    ELSE IF m.full_time_home_goals = m.full_time_away_goals THEN 1 ELSE 0

\* the two TeamFeatures of the prepared bundle
BundleTeams == {featureBundle[1].home_team, featureBundle[1].away_team}

\* C20: getTeamFeatures reads at most the 10 newest home and the 10 newest
\* away matches of the team; recent_form_home and recent_form_away have at
\* most 5 entries, entry i being the team's 1 / 0.5 / 0 in its i-th newest
\* home (away) match
C20_RecentFormNewestFirst ==
    featureBundle # <<>> =>
        \A tf \in BundleTeams :
            LET H == HomeRowsOf(tf.team_id)
                A == AwayRowsOf(tf.team_id)
                formH == tf.form_features.recent_form_home
                formA == tf.form_features.recent_form_away
            IN  /\ tf.historical_features.total_matches_played
                      = Min(10, Cardinality(H)) + Min(10, Cardinality(A))
                /\ Len(formH) = Min(5, Cardinality(H))
                /\ Len(formA) = Min(5, Cardinality(A))
                /\ \A i \in 1..Len(formH) : formH[i] = HomePoints(table[NthNewest(H, i)])
                /\ \A i \in 1..Len(formA) : formA[i] = AwayPoints(table[NthNewest(A, i)])

\* team A has more than 10 home and more than 10 away matches, and its
\* five newest home matches did not all end the same way
C20_Witness ==
    /\ featureBundle # <<>>
    /\ featureBundle[1].home_team.team_id = "A"
    /\ Cardinality(HomeRowsOf("A")) > 10
    /\ Cardinality(AwayRowsOf("A")) > 10
    /\ featureBundle[1].home_team.historical_features.total_matches_played = 20
    /\ Len(featureBundle[1].home_team.form_features.recent_form_home) = 5
    /\ featureBundle[1].home_team.form_features.recent_form_home[1]
          # featureBundle[1].home_team.form_features.recent_form_home[2]


\* the rows of the table that team t played, home or away
RowsOf(t) == HomeRowsOf(t) \cup AwayRowsOf(t)

\* team t's 1 / 0.5 / 0 (in halves) in row m
PointsOf(t, m) == IF m.home_team = t THEN HomePoints(m) ELSE AwayPoints(m)

\* team t's five newest rows, home and away taken together
LastFiveOverall(t) ==
    {NthNewest(RowsOf(t), i) : i \in 1..Min(5, Cardinality(RowsOf(t)))}

\* C21: recent_form_overall holds the team's 1 / 0.5 / 0 of its five newest
\* matches, home and away taken together (compared here value by value,
\* whatever the order of the entries)
C21_OverallFormIsLastFive ==
    featureBundle # <<>> =>
        \A tf \in BundleTeams :
            LET overall == tf.form_features.recent_form_overall
                last == LastFiveOverall(tf.team_id)
            IN  /\ Len(overall) = Cardinality(last)
                /\ \A v \in 0..2 :
                      Cardinality({i \in 1..Len(overall) : overall[i] = v})
                          = Cardinality({r \in last : PointsOf(tf.team_id, table[r]) = v})


\* the (at most) ten newest rows among the rows S
TenNewest(S) == {NthNewest(S, i) : i \in 1..Min(10, Cardinality(S))}

\* the sum of a goals column over the rows S
RECURSIVE GoalsOver(_, _)
GoalsOver(S, column) ==
    IF S = {} THEN 0
    ELSE LET r == CHOOSE x \in S : TRUE
         IN  table[r][column] + GoalsOver(S \ {r}, column)

\* quotient r is the average of total over the rows S, and 0 for no rows
IsAverage(r, total, S) ==
    IF S = {} THEN IsZero(r)
    ELSE r[2] # 0 /\ r[1] * Cardinality(S) = total * r[2]

\* quotient r is the percentage of the rows S with property P, and 0 for no rows
IsPercentage(r, S, P(_)) ==
    IsAverage(r, 100 * Cardinality({x \in S : P(table[x])}), S)

\* C22: every goal average and every percentage of getTeamFeatures is 0
\* for an empty sample; the home values are those of the team's home rows
\* alone, the away values those of its away rows alone, and comeback and
\* draw percentages those of the two together
C22_SplitStatisticsGuarded ==
    featureBundle # <<>> =>
        \A tf \in BundleTeams :
            LET H == TenNewest(HomeRowsOf(tf.team_id))
                A == TenNewest(AwayRowsOf(tf.team_id))
                g == tf.goal_features
                h == tf.historical_features
            IN  /\ IsAverage(g.avg_goals_scored_home,
                             GoalsOver(H, "full_time_home_goals"), H)
                /\ IsAverage(g.avg_goals_conceded_home,
                             GoalsOver(H, "full_time_away_goals"), H)
                /\ IsAverage(g.avg_goals_scored_away,
                             GoalsOver(A, "full_time_away_goals"), A)
                /\ IsAverage(g.avg_goals_conceded_away,
                             GoalsOver(A, "full_time_home_goals"), A)
                /\ IsPercentage(g.btts_percentage_home, H,
                       LAMBDA m : m.full_time_home_goals > 0 /\ m.full_time_away_goals > 0)
                /\ IsPercentage(g.btts_percentage_away, A,
                       LAMBDA m : m.full_time_home_goals > 0 /\ m.full_time_away_goals > 0)
                /\ IsPercentage(g.clean_sheet_percentage_home, H,
                       LAMBDA m : m.full_time_away_goals = 0)
                /\ IsPercentage(g.clean_sheet_percentage_away, A,
                       LAMBDA m : m.full_time_home_goals = 0)
                /\ IsPercentage(g.comeback_ability, H \cup A, LAMBDA m : m.comeback_computed)
                /\ IsPercentage(h.home_win_percentage, H, LAMBDA m : HomePoints(m) = 2)
                /\ IsPercentage(h.away_win_percentage, A, LAMBDA m : AwayPoints(m) = 2)
                /\ IsPercentage(h.draw_percentage, H \cup A, LAMBDA m : HomePoints(m) = 1)

\* team B has away matches but no home match: its home values are 0 and
\* its away values are not
C22_Witness ==
    /\ featureBundle # <<>>
    /\ featureBundle[1].away_team.team_id = "B"
    /\ HomeRowsOf("B") = {}
    /\ Cardinality(AwayRowsOf("B")) >= 2
    /\ IsZero(featureBundle[1].away_team.goal_features.avg_goals_scored_home)
    /\ IsZero(featureBundle[1].away_team.goal_features.btts_percentage_home)
    /\ IsZero(featureBundle[1].away_team.historical_features.home_win_percentage)
    /\ ~IsZero(featureBundle[1].away_team.goal_features.avg_goals_scored_away)
    /\ ~IsZero(featureBundle[1].away_team.goal_features.btts_percentage_away)


\* the home team of the fixture the bundle was prepared for
FixtureHome == featureBundle[1].home_team.team_id

\* the head-to-head sample: the (at most) ten newest meetings
HeadToHeadSample == TenNewest(MeetingsInTable)

\* the meetings of the sample the fixture's home team won, wherever played
WonByFixtureHome ==
    {r \in HeadToHeadSample : PointsOf(FixtureHome, table[r]) = 2}

\* C23: for a non-empty head-to-head sample, home_advantage is the fraction
\* of its matches won by the team that is home in the fixture predicted,
\* its wins as the home side and as the away side both counted
C23_HomeAdvantageFollowsFixtureHome ==
    (featureBundle # <<>> /\ MeetingsInTable # {}) =>
        /\ featureBundle[1].head_to_head.matches_played = Cardinality(HeadToHeadSample)
        /\ IsAverage(featureBundle[1].head_to_head.home_advantage,
                     Cardinality(WonByFixtureHome), HeadToHeadSample)

\* the sample holds a win of the fixture's home team at home, one away, and
\* a match it did not win
C23_Witness ==
    /\ featureBundle # <<>>
    /\ \E r \in WonByFixtureHome : table[r].home_team = FixtureHome
    /\ \E r \in WonByFixtureHome : table[r].away_team = FixtureHome
    /\ WonByFixtureHome # HeadToHeadSample
    /\ featureBundle[1].head_to_head.home_advantage = <<2, 3>>


(***************************************************************************)
(* Properties of the metadata step (SpecMetadata).                         *)
(***************************************************************************)
\* the tiers in rising order
TierRank(t) == CASE t = "LOW" -> 0 [] t = "MEDIUM" -> 1 [] t = "HIGH" -> 2

\* the rank of the tier of the score n / d: HIGH from 0.8, MEDIUM from 0.6
\* (n and d in hundredths of d)
RankOfScore(n, d) ==
    IF n >= 80 * d THEN 2 ELSE IF n >= 60 * d THEN 1 ELSE 0

C24_TierFromConfidenceAlone ==
    metadata # <<>> =>
        TierRank(metadata[1].prediction_confidence)
            = RankOfScore(combined[1].confidence_score, 1)

LimitedData == "Limitált történeti adat"

\* C25: the limited-historical-data warning is among the warning flags
\* exactly when the data-quality score is below 0.7
C25_WarningIffLowQuality ==
    metadata # <<>> =>
        ((\E i \in 1..Len(metadata[1].warning_flags) :
              metadata[1].warning_flags[i] = LimitedData)
            <=> metadata[1].data_quality_score < 70)

\* a quality score just below 0.7 has raised the warning
C25_Witness ==
    /\ metadata # <<>>
    /\ quality = <<69>>
    /\ metadata[1].data_quality_score = 69
    /\ metadata[1].warning_flags = <<LimitedData>>


(***************************************************************************)
(* C26: isLoading is TRUE in every state where at least one predictMatch   *)
(* or predictBatch call has started and not yet finished, overlapping      *)
(* calls included.                                                         *)
(***************************************************************************)
InFlight == {c \in Callers : calls[c].pc = "awaiting"}

C26_LoadingWhileAnyCallInFlight == InFlight # {} => isLoading = TRUE

\* with one call in flight at most, the flag does follow the call
C26_LoadingWhileOnlyCallInFlight ==
    (InFlight # {} /\ \A c \in Callers \ InFlight : calls[c].pc = "idle")
        => isLoading = TRUE


(***************************************************************************)
(* C30: in the half-time analysis of calculateDetailedStats the three      *)
(* half-time counts (home leads, away leads, level) add up to the number   *)
(* of matches, and for each side the leads that ended in a win, a draw and *)
(* a loss add up to that side's number of leads.                           *)
(***************************************************************************)
C30_HalfTimeCountsPartition ==
    detailed # <<>> =>
        LET h == detailed[1].halfTimeAnalysis
        IN  /\ h.ht_home_leads + h.ht_away_leads + h.ht_draws
                  = detailed[1].basic.total_matches
            /\ detailed[1].basic.total_matches = Len(matches)
            /\ h.ht_home_lead_to_win + h.ht_home_lead_to_draw + h.ht_home_lead_to_loss
                  = h.ht_home_leads
            /\ h.ht_away_lead_to_win + h.ht_away_lead_to_draw + h.ht_away_lead_to_loss
                  = h.ht_away_leads

\* five matches: a home lead held and one lost, an away lead held and one
\* that ended level, and a match level at half-time
C30_Witness ==
    /\ detailed # <<>>
    /\ Len(matches) = 5
    /\ LET h == detailed[1].halfTimeAnalysis
       IN  /\ h.ht_home_lead_to_win = 1 /\ h.ht_home_lead_to_loss = 1
           /\ h.ht_away_lead_to_win = 1 /\ h.ht_away_lead_to_draw = 1
           /\ h.ht_draws = 1


(***************************************************************************)
(* C27: in the statistics PredictionModal, from eight empty fixtures and   *)
(* after any sequence of clearMatch calls and of updateMatch calls that    *)
(* pick a team getAvailableTeams offers for that fixture and side, no team *)
(* occupies more than one of the sixteen fixture sides.                    *)
(***************************************************************************)
\* the fixture sides a team occupies
SidesOf(team) ==
    {<<i, "home">> : i \in {j \in 1..Len(selectedMatches) : selectedMatches[j].home_team = team}}
        \cup {<<i, "away">> : i \in {j \in 1..Len(selectedMatches) :
                                        selectedMatches[j].away_team = team}}

C27_NoTeamOnTwoSides ==
    /\ Len(selectedMatches) \in {0, NumFixtures}
    /\ \A i \in 1..Len(selectedMatches) :
          \A team \in {selectedMatches[i].home_team, selectedMatches[i].away_team} \ {""} :
              /\ Cardinality(SidesOf(team)) = 1
              /\ \E k \in 1..Len(teams) : teams[k] = team

\* every team of the list is placed, two of them in the same fixture, and
\* the first fixture is empty again
C27_Witness ==
    /\ Len(teams) = MaxTeams
    /\ \A k \in 1..Len(teams) : SidesOf(teams[k]) # {}
    /\ \E i \in 1..Len(selectedMatches) :
          selectedMatches[i].home_team # "" /\ selectedMatches[i].away_team # ""
    /\ selectedMatches[1].home_team = "" /\ selectedMatches[1].away_team = ""

(***************************************************************************)
(* C28: runPredictions produces exactly one result entry per fixture that  *)
(* has both teams set, in fixture order; a query error or an empty result  *)
(* for a fixture gives an entry with null stats and the remaining fixtures *)
(* are still processed; loading is false once the run has ended.           *)
(***************************************************************************)
\* the ids of the fixtures with both teams set
ValidIds ==
    {i \in 1..Len(selectedMatches) :
        selectedMatches[i].home_team # "" /\ selectedMatches[i].away_team # ""}

\* the k-th of them in fixture order
NthValidId(k) == CHOOSE i \in ValidIds : Cardinality({j \in ValidIds : j <= i}) = k

NoRows(response) == response.error \/ response.data = None \/ response.data[1] = <<>>

C28_OneEntryPerValidFixture ==
    run.pc = "done" =>
        /\ loading = FALSE
        /\ Len(predictionEntries) = Cardinality(ValidIds)
        /\ Len(run.responses) = Cardinality(ValidIds)
        /\ \A k \in 1..Len(predictionEntries) :
              /\ predictionEntries[k].match = selectedMatches[NthValidId(k)]
              /\ IF NoRows(run.responses[k])
                 THEN /\ predictionEntries[k].stats = None
                      /\ predictionEntries[k].detailedStats = None
                 ELSE /\ predictionEntries[k].stats # None
                      /\ predictionEntries[k].stats[1].total_matches
                            = Len(run.responses[k].data[1])
                      /\ predictionEntries[k].detailedStats # None

\* a run over two fixtures whose first query failed and whose second found
\* matches
C28_Witness ==
    /\ run.pc = "done"
    /\ Len(predictionEntries) = 2
    /\ run.responses[1].error
    /\ predictionEntries[1].stats = None
    /\ predictionEntries[2].stats # None
    /\ predictionEntries[1].match.id < predictionEntries[2].match.id

(***************************************************************************)
(* C29: for every pair of non-empty team names calculatePrediction returns *)
(* a homeWinChance, a drawChance and an awayWinChance that are integers    *)
(* between 0 and 100 and add up to 100.                                    *)
(***************************************************************************)
Percent(x) == x \in 0..100

C29_ChancesArePercentagesSummingTo100 ==
    (predictionResult # <<>> /\ predictionResult[1].homeTeam # <<>>
                             /\ predictionResult[1].awayTeam # <<>>) =>
        LET r == predictionResult[1]
        IN  /\ Percent(r.homeWinChance)
            /\ Percent(r.drawChance)
            /\ Percent(r.awayWinChance)
            /\ r.homeWinChance + r.drawChance + r.awayWinChance = 100

\* the three chances do add up to 100, and the two win chances are
\* percentages
C29_WinChancesArePercentages ==
    predictionResult # <<>> =>
        LET r == predictionResult[1]
        IN  /\ Percent(r.homeWinChance)
            /\ Percent(r.awayWinChance)
            /\ r.homeWinChance + r.drawChance + r.awayWinChance = 100

\* the draw chance is below zero whatever the names
C29_DrawChanceNegative ==
    predictionResult # <<>> => predictionResult[1].drawChance < 0

====
